---- MODULE Spec2Model ----
(***************************************************************************)
(* Observability-Agent: the resilience layer (agent/resilience.py) and the *)
(* pipeline orchestrator (agent/planner.py) as state machines.             *)
(*                                                                         *)
(* Time is an integer clock `now` (one unit = one tick of time.time()).    *)
(* Confidence values and scores are IEEE 754 binary64 numbers, kept as a   *)
(* 53-bit mantissa and an exponent.                                        *)
(* Strings that the code inspects character by character are sequences of  *)
(* one-character strings; the empty sequence stands for both None and ''   *)
(* (the code only ever uses `x or ''` and truthiness on those values).     *)
(***************************************************************************)
EXTENDS Integers, Sequences, FiniteSets, TLC

VARIABLES
    breakers,       \* heap of CircuitBreaker objects, addressed by index
    _breakers,      \* resilience._breakers: name -> index into breakers, 0 = absent
    now,            \* time.time()
    calls,          \* the retry_with_backoff invocations, one per caller thread
    sinceSuccess,   \* history: record_failure calls since the last record_success, per breaker
    probes,         \* history: requests allowed in half-open since the last recorded outcome
    _attempt_history,   \* planner._attempt_history: fingerprint -> list of attempt records
    _closure_memory,    \* planner._closure_memory
    runs,           \* the run_planner calls, one per request
    tops,           \* history: per fingerprint, the top candidate of each recorded attempt
    completed,      \* history: the completed runs, in order of completion
    scored,         \* the last direct call of compute_confidence_elastic: inputs and result
    obs_closures,   \* the documents of the index "obs-closures-current", in the order indexed
    matched,        \* the last direct call of _match_closures: inputs and result
    retrieved,      \* the last direct call of hybrid_query and similar_incidents: inputs and results
    lookups,        \* the get_breaker calls in progress, one per caller thread
    llm,            \* the llm_complete call
    stream          \* the /debug/stream request: worker thread, msg_queue, consumer

breakerVars == <<breakers, _breakers, now, calls, sinceSuccess, probes>>

serviceVars == <<retrieved, lookups, llm, stream>>

plannerVars == <<_attempt_history, _closure_memory, runs, tops, completed, scored, obs_closures, matched,
                 serviceVars>>

vars == <<breakers, _breakers, now, calls, sinceSuccess, probes,
          _attempt_history, _closure_memory, runs, tops, completed, scored,
          obs_closures, matched, retrieved, lookups, llm, stream>>

(***************************************************************************)
(* Bounds of the model.                                                    *)
(***************************************************************************)
MaxTime == 3            \* the clock stops here
MaxFailures == 3        \* cap of the _failures counter
MaxThreshold == 2       \* failure_threshold arguments are 1..MaxThreshold
MaxTimeout == 1         \* recovery_timeout arguments are 1..MaxTimeout
MaxRetries == 2         \* max_retries arguments are 1..MaxRetries
MaxProbes == 2          \* cap of the history counter probes

(***************************************************************************)
(* Program constants.                                                      *)
(***************************************************************************)
DefaultFailureThreshold == 3
DefaultRecoveryTimeout == 30

BreakerNames == {"es_logs"}

\* the models of llm._get_provider_chain and their breakers, "llm_" + model
Models == {"groq", "gemini"}
llm_breaker(model) == "llm_" \o model
LlmBreakerNames == {llm_breaker(model) : model \in Models}

\* llm_complete returned no text
None == "None"
NoName == "none"
Callers == {"t1", "t2"}     \* threads that call retry_with_backoff
Thresholds == 1..MaxThreshold
Timeouts == 1..MaxTimeout
BaseDelays == {1}
MaxDelays == {2}

(***************************************************************************)
(* class CircuitBreaker                                                    *)
(***************************************************************************)
NewCircuitBreaker(name, failure_threshold, recovery_timeout) ==
    [name |-> name,
     failure_threshold |-> failure_threshold,
     recovery_timeout |-> recovery_timeout,
     failures |-> 0,
     last_failure |-> 0,
     state |-> "closed"]

\* the `state` property: reading it moves an open breaker whose timeout has
\* elapsed to half-open; returns the breaker after the read
state(cb, t) ==
    IF cb.state = "open" /\ t - cb.last_failure > cb.recovery_timeout
    THEN [cb EXCEPT !.state = "half-open"]
    ELSE cb

record_success(cb) ==
    [cb EXCEPT !.failures = 0, !.state = "closed"]

record_failure_mut_gt(cb, t) ==
    LET f == cb.failures + 1 IN
    [cb EXCEPT !.failures = f,
               !.last_failure = t,
               !.state = IF f > cb.failure_threshold THEN "open" ELSE @]

record_failure(cb, t) ==
    LET f == cb.failures + 1 IN
    [cb EXCEPT !.failures = f,
               !.last_failure = t,
               !.state = IF f >= cb.failure_threshold THEN "open" ELSE @]

\* allow_request: the value returned, given the breaker after the state read
allow_request_mut_always(cb) == TRUE

allow_request(cb) ==
    LET s == cb.state IN
    IF s = "closed" THEN TRUE
    ELSE IF s = "half-open" THEN TRUE
    ELSE FALSE

(***************************************************************************)
(* get_breaker: the registered breaker of a name, created on first use.   *)
(* Returns the heap and the _breakers after the call and the index found.  *)
(***************************************************************************)
get_breaker(heap, reg, name, failure_threshold, recovery_timeout) ==
    IF reg[name] = 0
    THEN [heap |-> Append(heap, NewCircuitBreaker(name, failure_threshold, recovery_timeout)),
          reg |-> [reg EXCEPT ![name] = Len(heap) + 1],
          id |-> Len(heap) + 1]
    ELSE [heap |-> heap, reg |-> reg, id |-> reg[name]]

\* delay = min(base_delay * (2 ** attempt), max_delay)
Min(a, b) == IF a <= b THEN a ELSE b

backoff_delay_mut_linear(base_delay, max_delay, attempt) ==
    Min(base_delay * (attempt + 1), max_delay)

backoff_delay(base_delay, max_delay, attempt) ==
    Min(base_delay * (2 ^ attempt), max_delay)

more_attempts_mut_extra(attempt, max_retries) == attempt < max_retries

\* line 119: attempt is not the last one of range(max_retries)
more_attempts(attempt, max_retries) == attempt < max_retries - 1

\* the locals of one retry_with_backoff call; results says of each call of
\* func whether it returned, waits lists the delays slept, last_exc is the
\* attempt (from 1) whose exception last_exc holds, 0 for None
IdleCall ==
    [pc |-> "idle", brk |-> 0, attempt |-> 0, max_retries |-> 1,
     base_delay |-> 1, max_delay |-> 1, has_fallback |-> FALSE,
     outcome |-> "none", wake |-> 0, results |-> <<>>, waits |-> <<>>, last_exc |-> 0]

BreakerIds == 1..Len(breakers)

\* the breaker is open and its recovery_timeout has not elapsed at time t
OpenNotElapsed(cb, t) ==
    cb.state = "open" /\ ~(t - cb.last_failure > cb.recovery_timeout)

(***************************************************************************)
(* Direct uses of a breaker (llm_complete and the tests call these).       *)
(***************************************************************************)
GetBreaker(name, failure_threshold, recovery_timeout) ==
    LET g == get_breaker(breakers, _breakers, name, failure_threshold, recovery_timeout) IN
    /\ _breakers[name] = 0
    /\ breakers' = g.heap
    /\ _breakers' = g.reg
    /\ sinceSuccess' = Append(sinceSuccess, 0)
    /\ probes' = Append(probes, 0)
    /\ UNCHANGED <<now, calls>>
    /\ UNCHANGED plannerVars

ReadState(b) ==
    /\ breakers' = [breakers EXCEPT ![b] = state(@, now)]
    /\ UNCHANGED <<_breakers, now, calls, sinceSuccess, probes>>
    /\ UNCHANGED plannerVars

RecordSuccess(b) ==
    /\ breakers' = [breakers EXCEPT ![b] = record_success(@)]
    /\ sinceSuccess' = [sinceSuccess EXCEPT ![b] = 0]
    /\ probes' = [probes EXCEPT ![b] = 0]
    /\ UNCHANGED <<_breakers, now, calls>>
    /\ UNCHANGED plannerVars

RecordFailure(b) ==
    /\ breakers[b].failures < MaxFailures
    /\ breakers' = [breakers EXCEPT ![b] = record_failure(@, now)]
    /\ sinceSuccess' = [sinceSuccess EXCEPT ![b] = @ + 1]
    /\ probes' = [probes EXCEPT ![b] = 0]
    /\ UNCHANGED <<_breakers, now, calls>>
    /\ UNCHANGED plannerVars

AllowRequest(b) ==
    LET cb == state(breakers[b], now) IN
    /\ ~(allow_request(cb) /\ cb.state = "half-open" /\ probes[b] >= MaxProbes)
    /\ breakers' = [breakers EXCEPT ![b] = cb]
    /\ probes' = [probes EXCEPT ![b] =
                    IF allow_request(cb) /\ cb.state = "half-open" THEN @ + 1 ELSE @]
    /\ UNCHANGED <<_breakers, now, calls, sinceSuccess>>
    /\ UNCHANGED plannerVars

\* time passes, up to a limit
TickTo(limit) ==
    /\ now < limit
    /\ now' = now + 1
    /\ UNCHANGED <<breakers, _breakers, calls, sinceSuccess, probes>>
    /\ UNCHANGED plannerVars

Tick == TickTo(MaxTime)

(***************************************************************************)
(* retry_with_backoff, one step per suspension point of the caller:        *)
(*   StartRetry  line 95-96: look the breaker up, attempt = 0              *)
(*   Attempt     line 99-105: the gate of one attempt, then func is called *)
(*   Return      line 106-126: func returned or raised                     *)
(*   Wake        line 120: time.sleep(delay) is over                       *)
(* outcome: "value" (func's result), "fallback", "CircuitOpen", "raised"   *)
(* (the last attempt's exception).                                         *)
(***************************************************************************)
StartRetry(c, name, max_retries, base_delay, max_delay, has_fallback) ==
    LET g == IF name = NoName
             THEN [heap |-> breakers, reg |-> _breakers, id |-> 0]
             ELSE get_breaker(breakers, _breakers, name,
                              DefaultFailureThreshold, DefaultRecoveryTimeout) IN
    /\ calls[c].pc \in {"idle", "done"}
    /\ breakers' = g.heap
    /\ _breakers' = g.reg
    /\ sinceSuccess' = IF Len(g.heap) > Len(breakers) THEN Append(sinceSuccess, 0) ELSE sinceSuccess
    /\ probes' = IF Len(g.heap) > Len(breakers) THEN Append(probes, 0) ELSE probes
    /\ calls' = [calls EXCEPT ![c] =
                    [pc |-> "attempt", brk |-> g.id, attempt |-> 0,
                     max_retries |-> max_retries, base_delay |-> base_delay,
                     max_delay |-> max_delay, has_fallback |-> has_fallback,
                     outcome |-> "none", wake |-> 0, results |-> <<>>, waits |-> <<>>,
                     last_exc |-> 0]]
    /\ UNCHANGED now
    /\ UNCHANGED plannerVars

Attempt(c) ==
    LET call == calls[c]
        b == call.brk
        cb == state(breakers[b], now) IN
    /\ call.pc = "attempt"
    /\ IF b # 0
       THEN /\ ~(allow_request(cb) /\ cb.state = "half-open" /\ probes[b] >= MaxProbes)
            /\ breakers' = [breakers EXCEPT ![b] = cb]
            /\ probes' = [probes EXCEPT ![b] =
                            IF allow_request(cb) /\ cb.state = "half-open" THEN @ + 1 ELSE @]
            /\ calls' = [calls EXCEPT ![c] =
                           IF ~allow_request(cb)
                           THEN [call EXCEPT !.pc = "done",
                                             !.outcome = IF call.has_fallback
                                                         THEN "fallback" ELSE "CircuitOpen"]
                           ELSE [call EXCEPT !.pc = "calling"]]
       ELSE /\ calls' = [calls EXCEPT ![c] = [call EXCEPT !.pc = "calling"]]
            /\ UNCHANGED <<breakers, probes>>
    /\ UNCHANGED <<_breakers, now, sinceSuccess>>
    /\ UNCHANGED plannerVars

Return(c, ok) ==
    LET call == calls[c]
        b == call.brk
        delay == backoff_delay(call.base_delay, call.max_delay, call.attempt) IN
    /\ call.pc = "calling"
    /\ IF ok
       THEN /\ IF b # 0
               THEN /\ breakers' = [breakers EXCEPT ![b] = record_success(@)]
                    /\ sinceSuccess' = [sinceSuccess EXCEPT ![b] = 0]
                    /\ probes' = [probes EXCEPT ![b] = 0]
               ELSE UNCHANGED <<breakers, sinceSuccess, probes>>
            /\ calls' = [calls EXCEPT ![c] =
                           [call EXCEPT !.pc = "done", !.outcome = "value",
                                        !.results = Append(@, TRUE)]]
       ELSE /\ IF b # 0
               THEN /\ breakers[b].failures < MaxFailures
                    /\ breakers' = [breakers EXCEPT ![b] = record_failure(@, now)]
                    /\ sinceSuccess' = [sinceSuccess EXCEPT ![b] = @ + 1]
                    /\ probes' = [probes EXCEPT ![b] = 0]
               ELSE UNCHANGED <<breakers, sinceSuccess, probes>>
            /\ calls' = [calls EXCEPT ![c] =
                           IF more_attempts(call.attempt, call.max_retries)
                           THEN [call EXCEPT !.pc = "sleeping", !.wake = now + delay,
                                             !.results = Append(@, FALSE),
                                             !.last_exc = call.attempt + 1,
                                             !.waits = Append(@, delay)]
                           ELSE [call EXCEPT !.pc = "done",
                                             !.results = Append(@, FALSE),
                                             !.last_exc = call.attempt + 1,
                                             !.outcome = IF call.has_fallback
                                                         THEN "fallback" ELSE "raised"]]
    /\ UNCHANGED <<_breakers, now>>
    /\ UNCHANGED plannerVars

Wake(c) ==
    /\ calls[c].pc = "sleeping"
    /\ now >= calls[c].wake
    /\ calls' = [calls EXCEPT ![c] = [@ EXCEPT !.pc = "attempt", !.attempt = @ + 1, !.wake = 0]]
    /\ UNCHANGED <<breakers, _breakers, now, sinceSuccess, probes>>
    /\ UNCHANGED plannerVars

InitResilience ==
    /\ breakers = <<>>
    /\ _breakers = [n \in BreakerNames \cup LlmBreakerNames |-> 0]
    /\ now = 0
    /\ calls = [c \in Callers |-> IdleCall]
    /\ sinceSuccess = <<>>
    /\ probes = <<>>

\* no run_planner call is made in the specifications of the resilience layer
\* compute_confidence_elastic has not been called directly
NotScored == [called |-> FALSE]
\* _match_closures has not been called directly
NotMatched == [called |-> FALSE]
\* hybrid_query and similar_incidents have not been called directly
NotRetrieved == [called |-> FALSE]
\* a thread that is not inside get_breaker and holds no breaker
IdleLookup == [pc |-> "idle", name |-> NoName, failure_threshold |-> 0, recovery_timeout |-> 0, got |-> 0]
\* llm_complete has not been called
IdleLlm == [pc |-> "idle", chain |-> <<>>, i |-> 0, id |-> 0, denied |-> FALSE, tried |-> <<>>, result |-> None, count |-> 0]
\* no /debug/stream request has been made
IdleStream ==
    [worker |-> "idle", i |-> 0, progress |-> 0, msg_queue |-> <<>>, produced |-> <<>>,
     consumer |-> "idle", emitted |-> <<>>, keepalives |-> 0]

InitServices ==
    /\ retrieved = NotRetrieved
    /\ lookups = [c \in Callers |-> IdleLookup]
    /\ llm = IdleLlm
    /\ stream = IdleStream

InitNoRuns ==
    /\ _attempt_history = <<>>
    /\ _closure_memory = <<>>
    /\ runs = <<>>
    /\ tops = <<>>
    /\ completed = <<>>
    /\ scored = NotScored
    /\ obs_closures = <<>>
    /\ matched = NotMatched
    /\ InitServices

InitBreaker == InitResilience /\ InitNoRuns

\* the breaker on its own: any sequence of calls of its methods
NextBreaker ==
    \/ \E n \in BreakerNames, th \in Thresholds, to \in Timeouts : GetBreaker(n, th, to)
    \/ \E b \in BreakerIds : ReadState(b)
    \/ \E b \in BreakerIds : RecordSuccess(b)
    \/ \E b \in BreakerIds : RecordFailure(b)
    \/ \E b \in BreakerIds : AllowRequest(b)
    \/ Tick

SpecBreaker == InitBreaker /\ [][NextBreaker]_vars

\* threads calling retry_with_backoff on shared breakers
NextRetry ==
    \/ \E n \in BreakerNames, th \in Thresholds, to \in Timeouts : GetBreaker(n, th, to)
    \/ Tick
    \/ \E c \in Callers, n \in BreakerNames, mr \in 1..MaxRetries,
          bd \in BaseDelays, md \in MaxDelays, fb \in BOOLEAN :
            StartRetry(c, n, mr, bd, md, fb)
    \/ \E c \in Callers : Attempt(c)
    \/ \E c \in Callers, ok \in BOOLEAN : Return(c, ok)
    \/ \E c \in Callers : Wake(c)

SpecRetry == InitBreaker /\ [][NextRetry]_vars

(***************************************************************************)
(* One caller of retry_with_backoff, with or without a breaker, with more  *)
(* attempts and delays on both sides of max_delay.                         *)
(***************************************************************************)
MaxAttempts == 4
MaxBackoffTime == 7
BackoffBaseDelays == {1, 3}
BackoffMaxDelays == {2, 5}

NextBackoff ==
    \/ TickTo(MaxBackoffTime)
    \/ \E n \in BreakerNames \cup {NoName}, mr \in 1..MaxAttempts,
          bd \in BackoffBaseDelays, md \in BackoffMaxDelays, fb \in BOOLEAN :
            StartRetry("t1", n, mr, bd, md, fb)
    \/ \E c \in Callers : Attempt(c)
    \/ \E c \in Callers, ok \in BOOLEAN : Return(c, ok)
    \/ \E c \in Callers : Wake(c)

SpecBackoff == InitBreaker /\ [][NextBackoff]_vars

(***************************************************************************)
(* Python string operations, on sequences of one-character strings.        *)
(***************************************************************************)
LowerChar(ch) ==
    CASE ch = "A" -> "a"
      [] ch = "B" -> "b"
      [] ch = "C" -> "c"
      [] ch = "D" -> "d"
      [] ch = "E" -> "e"
      [] ch = "F" -> "f"
      [] ch = "G" -> "g"
      [] ch = "H" -> "h"
      [] ch = "I" -> "i"
      [] ch = "J" -> "j"
      [] ch = "K" -> "k"
      [] ch = "L" -> "l"
      [] ch = "M" -> "m"
      [] ch = "N" -> "n"
      [] ch = "O" -> "o"
      [] ch = "P" -> "p"
      [] ch = "Q" -> "q"
      [] ch = "R" -> "r"
      [] ch = "S" -> "s"
      [] ch = "T" -> "t"
      [] ch = "U" -> "u"
      [] ch = "V" -> "v"
      [] ch = "W" -> "w"
      [] ch = "X" -> "x"
      [] ch = "Y" -> "y"
      [] ch = "Z" -> "z"
      [] OTHER -> ch

lower(s) == [i \in 1..Len(s) |-> LowerChar(s[i])]

Whitespace == {" ", "\t", "\n"}

RECURSIVE lstrip(_, _)
lstrip(s, chars) ==
    IF s # <<>> /\ s[1] \in chars THEN lstrip(Tail(s), chars) ELSE s

RECURSIVE rstrip(_, _)
rstrip(s, chars) ==
    IF s # <<>> /\ s[Len(s)] \in chars THEN rstrip(SubSeq(s, 1, Len(s) - 1), chars) ELSE s

\* str.strip(chars); str.strip() is strip(s, Whitespace)
strip(s, chars) == rstrip(lstrip(s, chars), chars)

\* s[:n]
Prefix(s, n) == SubSeq(s, 1, Min(Len(s), n))

\* a in b, for strings
IsSubstring(a, b) ==
    \E i \in 0..(Len(b) - Len(a)) : SubSeq(b, i + 1, i + Len(a)) = a

\* str.split(): the maximal runs of non-whitespace characters
RECURSIVE split(_)
split(s) ==
    LET t == lstrip(s, Whitespace)
        ends == {i \in 1..Len(t) : t[i] \in Whitespace}
        n == IF ends = {} THEN Len(t) + 1
             ELSE CHOOSE i \in ends : \A j \in ends : i <= j IN
    IF t = <<>> THEN <<>>
    ELSE <<SubSeq(t, 1, n - 1)>> \o split(SubSeq(t, n, Len(t)))

\* sep.join(parts)
RECURSIVE join(_, _)
join(sep, parts) ==
    IF parts = <<>> THEN <<>>
    ELSE IF Len(parts) = 1 THEN parts[1]
    ELSE parts[1] \o sep \o join(sep, Tail(parts))

Range(f) == {f[i] : i \in DOMAIN f}

(***************************************************************************)
(* _scope_fingerprint.  The key is built as the code builds it; the first  *)
(* 16 hex digits of its SHA-256 are taken to be distinct for distinct keys,*)
(* so a fingerprint is represented by its key.                             *)
(***************************************************************************)
sha256_hexdigest_16(key) == key

_scope_fingerprint(question, service, env) ==
    sha256_hexdigest_16(
        lower(strip(question, Whitespace)) \o <<"|">> \o lower(service) \o <<"|">> \o lower(env))

\* the scope a fingerprint stands for: the question trimmed and lower-cased,
\* the service and the env lower-cased
NormalizedScope(question, service, env) ==
    <<lower(strip(question, Whitespace)), lower(service), lower(env)>>

(***************************************************************************)
(* Closure memory: _extract_keywords and _match_closures.                  *)
(* A closure is [root_cause, service, question_keywords, signals_used].    *)
(* A finding is [message, trace]: its message (<<>> for None) and whether  *)
(* it carries a trace.id.  Match scores are in 1/10000.                    *)
(***************************************************************************)
stop_words ==
    {<<"t", "h", "e">>,
     <<"a">>,
     <<"a", "n">>,
     <<"i", "s">>,
     <<"a", "r", "e">>,
     <<"w", "a", "s">>,
     <<"w", "e", "r", "e">>,
     <<"i", "n">>,
     <<"o", "n">>,
     <<"a", "t">>,
     <<"t", "o">>,
     <<"f", "o", "r">>,
     <<"o", "f">>,
     <<"w", "i", "t", "h">>,
     <<"b", "y">>,
     <<"f", "r", "o", "m">>,
     <<"w", "h", "a", "t">>,
     <<"w", "h", "y">>,
     <<"h", "o", "w">>,
     <<"w", "h", "e", "n">>,
     <<"w", "h", "e", "r", "e">>,
     <<"w", "h", "i", "c", "h">>}

KeywordMinLen == 2
Punctuation == {"?", ".", ",", "!", ";", ":"}

_extract_keywords(text) ==
    LET ws == split(text) IN
    {lower(strip(ws[i], Punctuation)) : i \in {j \in 1..Len(ws) : Len(ws[j]) > KeywordMinLen}}
        \ stop_words

MessageCut == 100
FindingsCut == 10
RootCauseWords == 5
RootCauseWordMinLen == 3

\* " ".join((f.get("message") or "")[:100] for f in findings[:10]).lower()
finding_messages(findings) ==
    LET fs == Prefix(findings, FindingsCut) IN
    lower(join(<<" ">>, [i \in 1..Len(fs) |-> Prefix(fs[i].message, MessageCut)]))

current_signals(findings) ==
    (IF \E i \in 1..Len(findings) : findings[i].trace THEN {"traces"} ELSE {})
    \cup (IF \E i \in 1..Len(findings) : findings[i].message # <<>> THEN {"logs"} ELSE {})

(***************************************************************************)
(* compute_confidence_elastic: its literals, in hundredths.                *)
(***************************************************************************)
SignalWeight == 20
AlertWeight == 10
ClosureStrong == 70
ClosureStrongBonus == 15
ClosureModerate == 40
ClosureModerateBonus == 8
EvidenceStrong == 10
EvidenceStrongBonus == 15
EvidenceGood == 5
EvidenceGoodBonus == 10
EvidenceMinimal == 2
EvidenceMinimalBonus == 5
MissingPenalty == 5
MissingPenaltyCap == 20
ConfidenceCap == 95

Max(a, b) == IF a >= b THEN a ELSE b

(***************************************************************************)
(* Python floats.  The score of compute_confidence_elastic is a float, an  *)
(* IEEE 754 binary64 number: every literal is the float nearest to it and  *)
(* every + and - rounds to the nearest float, ties to even.  A             *)
(* non-negative float is [m, e], m * 2^e, with m a natural number of       *)
(* exactly MantissaBits bits, or <<>> for 0.0.  A natural number is a      *)
(* sequence of limbs of LimbBits bits, lowest first, without high zero     *)
(* limbs.  All the floats here are in [0.05, 2), far from overflow and     *)
(* underflow.                                                              *)
(***************************************************************************)
MantissaBits == 53
LimbBits == 13
LiteralScale == 64
Base == 2 ^ LimbBits

Zeros(k) == [i \in 1..k |-> 0]

RECURSIVE Trim(_)
Trim(b) == IF b # <<>> /\ b[Len(b)] = 0 THEN Trim(SubSeq(b, 1, Len(b) - 1)) ELSE b

Limb(b, i) == IF i <= Len(b) THEN b[i] ELSE 0

RECURSIVE AddLimbs(_, _, _, _)
AddLimbs(a, b, i, carry) ==
    IF i > Len(a) /\ i > Len(b) THEN (IF carry = 1 THEN <<1>> ELSE <<>>)
    ELSE <<(Limb(a, i) + Limb(b, i) + carry) % Base>> \o AddLimbs(a, b, i + 1, (Limb(a, i) + Limb(b, i) + carry) \div Base)

\* a - b for a >= b
RECURSIVE SubLimbs(_, _, _, _)
SubLimbs(a, b, i, borrow) ==
    IF i > Len(a) THEN <<>>
    ELSE <<(Limb(a, i) - Limb(b, i) - borrow) % Base>> \o SubLimbs(a, b, i + 1, IF Limb(a, i) - Limb(b, i) - borrow < 0 THEN 1 ELSE 0)

\* a < b, from limb i down
RECURSIVE LessLimbs(_, _, _)
LessLimbs(a, b, i) ==
    IF i = 0 THEN FALSE
    ELSE IF Limb(a, i) # Limb(b, i) THEN Limb(a, i) < Limb(b, i)
    ELSE LessLimbs(a, b, i - 1)

\* a * f for f <= Base
RECURSIVE MulSmall(_, _, _, _)
MulSmall(a, f, i, carry) ==
    IF i > Len(a) THEN (IF carry > 0 THEN <<carry>> ELSE <<>>)
    ELSE <<(a[i] * f + carry) % Base>> \o MulSmall(a, f, i + 1, (a[i] * f + carry) \div Base)

\* limbs i..1 of n divided by d <= Base, highest first: [q, r]
RECURSIVE DivSmall(_, _, _, _, _)
DivSmall(n, d, i, r, q) ==
    IF i = 0 THEN [q |-> Trim(q), r |-> r]
    ELSE DivSmall(n, d, i - 1, (r * Base + n[i]) % d, <<(r * Base + n[i]) \div d>> \o q)

ShiftLeft(a, k) == Zeros(k \div LimbBits) \o MulSmall(a, 2 ^ (k % LimbBits), 1, 0)

\* a \div 2^k, and whether a bit was lost
ShiftRight(a, k) ==
    LET whole == Min(k \div LimbBits, Len(a))
        d == DivSmall(SubSeq(a, whole + 1, Len(a)), 2 ^ (k % LimbBits), Len(a) - whole, 0, <<>>) IN
    [q |-> d.q, lost |-> d.r # 0 \/ \E i \in 1..whole : a[i] # 0]

BitLength(a) ==
    IF a = <<>> THEN 0
    ELSE (Len(a) - 1) * LimbBits + Cardinality({k \in 0..(LimbBits - 1) : 2 ^ k <= a[Len(a)]})

\* the float nearest to n * 2^e (plus something below the lowest bit when
\* sticky), ties to even
RoundToFloat(b, e, sticky) ==
    LET n == Trim(b)
        k == BitLength(n) - MantissaBits IN
    IF n = <<>> THEN [m |-> <<>>, e |-> 0]
    ELSE IF k <= 0 THEN [m |-> ShiftLeft(n, -k), e |-> e + k]
    ELSE LET low == ShiftRight(n, k - 1)
             kept == ShiftRight(low.q, 1).q
             guard == low.q[1] % 2 = 1
             below == sticky \/ low.lost
             up == guard /\ (below \/ kept[1] % 2 = 1)
             r == IF up THEN AddLimbs(kept, <<1>>, 1, 0) ELSE kept IN
         IF BitLength(r) > MantissaBits
         THEN [m |-> ShiftLeft(<<1>>, MantissaBits - 1), e |-> e + k + 1]
         ELSE [m |-> r, e |-> e + k]

RECURSIVE NatLimbs(_)
NatLimbs(n) == IF n = 0 THEN <<>> ELSE <<n % Base>> \o NatLimbs(n \div Base)

\* the float nearest to n/d, d <= Base: int / int
Ratio(n, d) ==
    LET scaled == ShiftLeft(NatLimbs(n), LiteralScale)
        q == DivSmall(scaled, d, Len(scaled), 0, <<>>) IN
    RoundToFloat(q.q, -LiteralScale, q.r # 0)

\* the literals n/100, as 0.20 or 0.05
FloatLiterals == [n \in 0..100 |-> Ratio(n, 100)]

Hundredths(n) == FloatLiterals[n]

\* x and y on one exponent
Aligned(x, y) ==
    LET e == IF x.m = <<>> THEN y.e ELSE IF y.m = <<>> THEN x.e ELSE Min(x.e, y.e) IN
    [x |-> IF x.m = <<>> THEN <<>> ELSE ShiftLeft(x.m, x.e - e),
     y |-> IF y.m = <<>> THEN <<>> ELSE ShiftLeft(y.m, y.e - e),
     e |-> e]

FloatLess(x, y) ==
    LET a == Aligned(x, y) IN LessLimbs(a.x, a.y, Max(Len(a.x), Len(a.y)))

FloatAdd(x, y) ==
    LET a == Aligned(x, y) IN RoundToFloat(AddLimbs(a.x, a.y, 1, 0), a.e, FALSE)

\* x - y, a float with a sign
FloatSub(x, y) ==
    LET a == Aligned(x, y)
        neg == LessLimbs(a.x, a.y, Max(Len(a.x), Len(a.y)))
        hi == IF neg THEN a.y ELSE a.x
        lo == IF neg THEN a.x ELSE a.y IN
    [neg |-> neg, abs |-> RoundToFloat(SubLimbs(hi, lo, 1, 0), a.e, FALSE)]

\* max(0.0, x - y)
FloatSubClamped(x, y) == IF FloatLess(x, y) THEN [m |-> <<>>, e |-> 0] ELSE FloatSub(x, y).abs

FloatMin(x, y) == IF FloatLess(y, x) THEN y ELSE x

\* a * b, from limb i of b up
RECURSIVE MulLimbs(_, _, _)
MulLimbs(a, b, i) ==
    IF i > Len(b) THEN <<>>
    ELSE AddLimbs(MulSmall(a, b[i], 1, 0), <<0>> \o MulLimbs(a, b, i + 1), 1, 0)

FloatMul(x, y) == RoundToFloat(MulLimbs(x.m, y.m, 1), x.e + y.e, FALSE)

(***************************************************************************)
(* confidence.py.  The score is a float; the literals are the floats       *)
(* nearest to the hundredths above.                                        *)
(***************************************************************************)
TierHigh == 55
TierMedium == 25
FloatZero == [m |-> <<>>, e |-> 0]

FloatGeq(x, y) == ~FloatLess(x, y)

_classify_tier(score) ==
    IF FloatGeq(score, Hundredths(TierHigh)) THEN "high"
    ELSE IF FloatGeq(score, Hundredths(TierMedium)) THEN "medium"
    ELSE "low"

MaxSteps == 3

_compute_next_steps_mut_uncapped(tier, sources_available, has_logs, has_traces, has_metrics, has_incidents, time_range_label) ==
    LET missing == {name \in DOMAIN sources_available : ~sources_available[name]} IN
    (IF "logs" \in missing THEN <<"Fetch missing logs">> ELSE <<>>)
    \o (IF "traces" \in missing THEN <<"Include traces">> ELSE <<>>)
    \o (IF "metrics" \in missing THEN <<"Add metrics data">> ELSE <<>>)
    \o (IF "incidents" \in missing THEN <<"Search historical incidents">> ELSE <<>>)

_compute_next_steps(tier, sources_available, has_logs, has_traces, has_metrics, has_incidents, time_range_label) ==
    LET missing == {name \in DOMAIN sources_available : ~sources_available[name]}
        fetch == (IF "logs" \in missing THEN <<"Fetch missing logs">> ELSE <<>>)
                 \o (IF "traces" \in missing THEN <<"Include traces">> ELSE <<>>)
                 \o (IF "metrics" \in missing THEN <<"Add metrics data">> ELSE <<>>)
                 \o (IF "incidents" \in missing THEN <<"Search historical incidents">> ELSE <<>>)
        expand == IF missing # {} THEN <<>>
                  ELSE <<IF time_range_label \in {"15m", "1h"}
                         THEN "Expand time range to 6h" ELSE "Expand time range to 24h",
                         "Try a broader service scope">>
        low == IF fetch \o expand = <<>> THEN <<"Broaden time range or scope">> ELSE fetch \o expand
        correlate == (IF ~has_traces THEN <<"Include traces to correlate">> ELSE <<>>)
                     \o (IF ~has_metrics THEN <<"Add metrics for anomaly detection">> ELSE <<>>)
                     \o (IF ~has_incidents THEN <<"Check historical incidents">> ELSE <<>>)
                     \o (IF time_range_label = "15m" THEN <<"Expand to 1h for more context">> ELSE <<>>)
        medium == IF correlate = <<>> THEN <<"Add more service context">> ELSE correlate
        steps == IF tier = "low" THEN low
                 ELSE IF tier = "medium" THEN medium
                 ELSE <<"Review proposed remediations", "Create Kibana case">> IN
    SubSeq(steps, 1, Min(MaxSteps, Len(steps)))

\* score = 0.0, then score += bonus for each of the first i bonuses
RECURSIVE Accumulated(_, _)
Accumulated(bonuses, i) ==
    IF i = 0 THEN FloatZero ELSE FloatAdd(Accumulated(bonuses, i - 1), Hundredths(bonuses[i]))

\* the bonuses of the signals that fired, in the order they are added
signal_bonuses(has_apm_errors_spike, has_logs_error_burst, has_latency_anomaly, has_alert_fired) ==
    (IF has_apm_errors_spike THEN <<SignalWeight>> ELSE <<>>)
    \o (IF has_logs_error_burst THEN <<SignalWeight>> ELSE <<>>)
    \o (IF has_latency_anomaly THEN <<SignalWeight>> ELSE <<>>)
    \o (IF has_alert_fired THEN <<AlertWeight>> ELSE <<>>)

closure_bonus(closure_match_score) ==
    IF FloatGeq(closure_match_score, Hundredths(ClosureStrong)) THEN <<ClosureStrongBonus>>
    ELSE IF FloatGeq(closure_match_score, Hundredths(ClosureModerate)) THEN <<ClosureModerateBonus>>
    ELSE <<>>

evidence_bonus_mut_inverted(evidence_count) ==
    IF evidence_count >= EvidenceStrong THEN <<EvidenceMinimalBonus>>
    ELSE IF evidence_count >= EvidenceGood THEN <<EvidenceGoodBonus>>
    ELSE IF evidence_count >= EvidenceMinimal THEN <<EvidenceStrongBonus>>
    ELSE <<>>

evidence_bonus(evidence_count) ==
    IF evidence_count >= EvidenceStrong THEN <<EvidenceStrongBonus>>
    ELSE IF evidence_count >= EvidenceGood THEN <<EvidenceGoodBonus>>
    ELSE IF evidence_count >= EvidenceMinimal THEN <<EvidenceMinimalBonus>>
    ELSE <<>>

\* one penalty of 0.05 for each unavailable source
missing_penalties(sources_available) ==
    [i \in 1..Cardinality({n \in DOMAIN sources_available : ~sources_available[n]}) |-> MissingPenalty]

\* score -= min(missing_penalty, 0.20); confidence = max(0.0, min(0.95, score))
clamped_confidence(score, missing_penalty) ==
    FloatMin(Hundredths(ConfidenceCap), FloatSubClamped(score, FloatMin(missing_penalty, Hundredths(MissingPenaltyCap))))

\* the ConfidenceResult for a confidence
confidence_result(confidence, sources_available, has_logs, has_traces, has_metrics, has_incidents, time_range_label) ==
    LET tier == _classify_tier(confidence) IN
    [confidence |-> confidence,
     tier |-> tier,
     next_steps |-> _compute_next_steps(tier, sources_available, has_logs, has_traces, has_metrics, has_incidents, time_range_label)]

\* each intermediate value is computed once and then used: score and
\* missing_penalty, then confidence, then the result
compute_confidence_elastic(has_apm_errors_spike, has_logs_error_burst, has_latency_anomaly, has_alert_fired, sources_available, evidence_count, time_range_label, closure_match_score) ==
    LET bonuses == signal_bonuses(has_apm_errors_spike, has_logs_error_burst, has_latency_anomaly, has_alert_fired) \o closure_bonus(closure_match_score) \o evidence_bonus(evidence_count)
        penalties == missing_penalties(sources_available) IN
    CHOOSE result \in
        {confidence_result(confidence, sources_available, has_logs_error_burst, has_apm_errors_spike, has_latency_anomaly, has_alert_fired, time_range_label) :
            confidence \in {clamped_confidence(score, missing_penalty) :
                score \in {Accumulated(bonuses, Len(bonuses))},
                missing_penalty \in {Accumulated(penalties, Len(penalties))}}} : TRUE

(***************************************************************************)
(* _match_closures.  The match score is a float: its literals are in       *)
(* hundredths, the keyword overlap is a quotient of two counts.            *)
(***************************************************************************)
KeywordWeight == 40
ServiceWeight == 20
RootCauseWeight == 30
SignalsWeight == 10
ScoreOne == 100

\* len(question_kw & closure_kw) / max(len(question_kw | closure_kw), 1)
keyword_overlap(question_kw, closure_kw) ==
    Ratio(Cardinality(question_kw \cap closure_kw), Max(Cardinality(question_kw \cup closure_kw), 1))

\* the overlap added without its weight
keyword_part_mut_unweighted(question_kw, closure_kw) ==
    IF question_kw # {} /\ closure_kw # {}
    THEN keyword_overlap(question_kw, closure_kw)
    ELSE FloatZero

\* score += overlap * 0.4, when both keyword sets have a member
keyword_part(question_kw, closure_kw) ==
    IF question_kw # {} /\ closure_kw # {}
    THEN CHOOSE part \in {FloatAdd(FloatZero, product) :
             product \in {FloatMul(overlap, Hundredths(KeywordWeight)) :
                 overlap \in {keyword_overlap(question_kw, closure_kw)}}} : TRUE
    ELSE FloatZero

service_matches(closure, service) ==
    service # <<>> /\ closure.service # <<>> /\ lower(service) = lower(closure.service)

root_cause_in_findings(closure, findings) ==
    LET root_cause == lower(closure.root_cause)
        words == Prefix(split(root_cause), RootCauseWords)
        msgs == finding_messages(findings) IN
    root_cause # <<>>
    /\ \E i \in 1..Len(words) : Len(words[i]) > RootCauseWordMinLen /\ IsSubstring(words[i], msgs)

signals_overlap(closure, findings) ==
    closure.signals_used # {} /\ current_signals(findings) # {}
    /\ closure.signals_used \cap current_signals(findings) # {}

\* the body of the loop of _match_closures: the score of one closure
closure_score(closure, question, service, findings) ==
    CHOOSE score \in
        {IF signals_overlap(closure, findings) THEN FloatAdd(with_root_cause, Hundredths(SignalsWeight)) ELSE with_root_cause :
            with_root_cause \in
                {IF root_cause_in_findings(closure, findings) THEN FloatAdd(with_service, Hundredths(RootCauseWeight)) ELSE with_service :
                    with_service \in
                        {IF service_matches(closure, service) THEN FloatAdd(keywords, Hundredths(ServiceWeight)) ELSE keywords :
                            keywords \in {keyword_part(_extract_keywords(question), closure.question_keywords)}}}} : TRUE

NoMatch == [score |-> FloatZero, closure |-> 0]

\* the loop of _match_closures over memory[1..n]: [score, closure], closure = 0
\* for None and otherwise the index of the best closure
RECURSIVE best_closure(_, _, _, _, _)
best_closure(memory, n, question, service, findings) ==
    IF n = 0 THEN NoMatch
    ELSE CHOOSE result \in
             {IF FloatLess(best.score, score) THEN [score |-> score, closure |-> n] ELSE best :
                 best \in {best_closure(memory, n - 1, question, service, findings)},
                 score \in {closure_score(memory[n], question, service, findings)}} : TRUE

_match_closures(memory, question, service, findings) ==
    IF memory = <<>> THEN NoMatch
    ELSE CHOOSE result \in
             {[score |-> FloatMin(best.score, Hundredths(ScoreOne)), closure |-> best.closure] :
                 best \in {best_closure(memory, Len(memory), question, service, findings)}} : TRUE

(***************************************************************************)
(* Direct calls of compute_confidence_elastic, as the tests make them.     *)
(* sources_available is any dict of booleans, or None: here None and dicts *)
(* over five names with zero to five of them unavailable.                  *)
(***************************************************************************)
ScoreLabels == {"15m", "6h"}
ScoreSources == {"logs", "metrics", "traces", "incidents", "changes"}
ScoreMissing == {{}, {"logs"}, {"logs", "traces"}, {"metrics", "incidents", "changes"}, ScoreSources \ {"logs"}, ScoreSources}
ScoreAvailabilities == {[n \in ScoreSources |-> n \notin missing] : missing \in ScoreMissing} \cup {<<>>}
ScoreEvidenceCounts == {0, 1, 2, 5, 10}
ScoreClosureMatches == {0, 40, 70, 80}

Score(apm, logs, latency, alert, sources, evidence, label, closure) ==
    /\ ~scored.called
    /\ scored' = [called |-> TRUE,
                  has_apm_errors_spike |-> apm,
                  has_logs_error_burst |-> logs,
                  has_latency_anomaly |-> latency,
                  has_alert_fired |-> alert,
                  sources_available |-> sources,
                  evidence_count |-> evidence,
                  time_range_label |-> label,
                  closure_match_score |-> closure,
                  result |-> compute_confidence_elastic(apm, logs, latency, alert, sources, evidence, label, Hundredths(closure))]
    /\ UNCHANGED <<_attempt_history, _closure_memory, runs, tops, completed, obs_closures, matched, serviceVars>>
    /\ UNCHANGED breakerVars

NextConfidence ==
    \E apm, logs, latency, alert \in BOOLEAN, sources \in ScoreAvailabilities, evidence \in ScoreEvidenceCounts, label \in ScoreLabels, closure \in ScoreClosureMatches :
        Score(apm, logs, latency, alert, sources, evidence, label, closure)

SpecConfidence == InitBreaker /\ [][NextConfidence]_vars

(***************************************************************************)
(* _classify_root_cause_state.  Confidence is a float, its threshold in    *)
(* hundredths; the correlation score is in thirtieths (it is a multiple of *)
(* 1/3 plus 0.2).                                                          *)
(***************************************************************************)
ConfirmedConfidence == 70
ConfirmedCorrelation == 15
ProbableCorrelation == 9
ProbableFindings == 3

_classify_root_cause_state(candidate, findings_count, correlation_score, similar_match, confidence) ==
    IF FloatGeq(confidence, Hundredths(ConfirmedConfidence)) /\ similar_match /\ correlation_score > ConfirmedCorrelation
    THEN "confirmed"
    ELSE IF correlation_score > ProbableCorrelation /\ findings_count >= ProbableFindings
    THEN "probable"
    ELSE IF findings_count >= 1 THEN "correlated"
    ELSE "observed"

(***************************************************************************)
(* validate_before_propose                                                 *)
(***************************************************************************)
MIN_EVIDENCE_FOR_FIX == 2

require_evidence_count(evidence_len) == ~(evidence_len < MIN_EVIDENCE_FOR_FIX)

\* claims are given by their citation lists
require_citations(citations) == \A i \in 1..Len(citations) : citations[i] # <<>>

validate_before_propose_mut_no_citations(findings, incidents, citations) ==
    require_evidence_count(Len(findings) + Len(incidents))

validate_before_propose(findings, incidents, citations) ==
    require_evidence_count(Len(findings) + Len(incidents)) /\ require_citations(citations)

(***************************************************************************)
(* run_planner.  Texts are character sequences.                            *)
(***************************************************************************)
\* "Insufficient evidence - gather more signals" (its en dash written "-")
InsufficientEvidence ==
    <<"I", "n", "s", "u", "f", "f", "i", "c", "i", "e", "n", "t", " ", "e", "v", "i",
      "d", "e", "n", "c", "e", " ", "-", " ", "g", "a", "t", "h", "e", "r", " ", "m",
      "o", "r", "e", " ", "s", "i", "g", "n", "a", "l", "s">>

RecentDeployment ==
    <<"R", "e", "c", "e", "n", "t", " ", "d", "e", "p", "l", "o", "y", "m", "e", "n",
      "t", " ", "o", "r", " ", "c", "o", "n", "f", "i", "g", " ", "c", "h", "a", "n",
      "g", "e">>

PastResolution ==
    <<"[", "P", "a", "s", "t", " ", "r", "e", "s", "o", "l", "u", "t", "i", "o", "n",
      "]", " ">>

NotConfiguredMessage ==
    <<"E", "l", "a", "s", "t", "i", "c", "s", "e", "a", "r", "c", "h", " ", "i", "s",
      " ", "n", "o", "t", " ", "c", "o", "n", "f", "i", "g", "u", "r", "e", "d", ".",
      " ", "S", "e", "t", " ", "E", "L", "A", "S", "T", "I", "C", "_", "U", "R", "L",
      " ", "a", "n", "d", " ", "E", "L", "A", "S", "T", "I", "C", "_", "A", "P", "I",
      "_", "K", "E", "Y", " ", "i", "n", " ", "t", "h", "e", " ", "b", "a", "c", "k",
      "e", "n", "d", " ", ".", "e", "n", "v", " ", "f", "i", "l", "e", ".">>

CandidateCut == 200
CitationCut == 2
IncidentCut == 3

\* str(list_of_strings), for texts without quotes or escapes
str_list(l) ==
    <<"[">> \o join(<<",", " ">>, [i \in 1..Len(l) |-> <<"'">> \o l[i] \o <<"'">>]) \o <<"]">>

SourceNames == {"logs", "traces", "metrics", "changes"}

NoDifference == [neg |-> FALSE, abs |-> FloatZero]

NoDelta == [empty |-> TRUE, signals_added |-> 0, confidence_delta |-> NoDifference,
            missing_resolved |-> {}, root_cause_changed |-> FALSE]

\* PipelineArtifacts()
NewArtifacts ==
    [signals_gathered |-> [n \in SourceNames |-> 0],
     signals_total |-> 0,
     correlation_score |-> 0,
     gather_complete |-> FALSE,
     correlate_complete |-> FALSE,
     root_cause_complete |-> FALSE]

(***************************************************************************)
(* The tools of agent/tools.py.  Each one runs its query through            *)
(* retry_with_backoff with a breaker and no fallback, so the query ends in  *)
(* a value or in an exception (the last one raised, or CircuitOpen); the    *)
(* tool turns an exception into an empty ToolResult carrying str(e).        *)
(* `outcome` is how the query ended and the evidence built from its value.  *)
(***************************************************************************)
ToolResult(evidence, error) == [evidence |-> evidence, error |-> error]

\* a result not yet produced
NoToolResult == ToolResult(<<>>, <<>>)

Value(evidence) == [kind |-> "value", evidence |-> evidence]
Raised(error) == [kind |-> "raised", error |-> error]

\* the try / except of tool_search_logs, tool_search_traces,
\* tool_search_metrics, tool_find_changes and tool_find_similar_incidents
tool_result(outcome) ==
    IF outcome.kind = "value" THEN ToolResult(outcome.evidence, <<>>)
    ELSE ToolResult(<<>>, outcome.error)

\* the locals of one run_planner call and what it returned
\* RunInputs.time_range_label, planner.py line 67
DefaultTimeRangeLabel == "1h"

\* the ConfidenceResult of a run that has computed none yet
NoConfidence == [confidence |-> FloatZero, tier |-> "low", next_steps |-> <<>>]

IdleRun ==
    [pc |-> "idle", question |-> <<>>, service |-> <<>>, env |-> <<>>,
     progress_callback |-> FALSE, fp |-> <<>>,
     log_res |-> NoToolResult, trace_res |-> NoToolResult, metrics_res |-> NoToolResult,
     changes_res |-> NoToolResult, inc_res |-> NoToolResult,
     findings |-> <<>>, artifacts |-> NewArtifacts, missing_signals |-> <<>>,
     similar_incidents |-> <<>>, root_cause_candidates |-> <<>>,
     root_cause_states |-> <<>>, remediations |-> <<>>, called |-> {},
     time_range_label |-> DefaultTimeRangeLabel,
     closure_match_score |-> FloatZero, confidence |-> NoConfidence,
     prev_attempts_shared |-> FALSE, attempt_number |-> 1, record_index |-> 0,
     run_delta |-> NoDelta, returned |-> "none"]

\* ConfidenceResult(confidence=0.0, reasons=[msg]) of the degraded result
DegradedConfidence(msg) ==
    [confidence |-> FloatZero, reasons |-> <<msg>>, tier |-> "low", next_steps |-> <<>>]

ConfigureRemediation ==
    [action |-> "Configure ELASTIC_URL and ELASTIC_API_KEY in the backend .env, then restart the server.",
     risk_level |-> "low"]
GatherBeforeFix == [action |-> "Gather more evidence before applying fix", risk_level |-> "low"]
GatherToConfirm == [action |-> "Gather more evidence to confirm hypothesis", risk_level |-> "low"]
BroadenScope == [action |-> "Broaden scope or add missing signal sources", risk_level |-> "low"]

RunIds == DOMAIN runs

\* what a returned call leaves in the log of completed calls
completion(run) ==
    [returned |-> run.returned,
     scope |-> NormalizedScope(run.question, run.service, run.env),
     fp |-> run.fp,
     attempt_number |-> run.attempt_number,
     record_index |-> run.record_index,
     run_delta |-> run.run_delta]

(***************************************************************************)
(* run_planner, one action per stage:                                      *)
(*   StartRun             lines 245-257                                    *)
(*   CheckElasticsearch   lines 259-278                                    *)
(*   Gather               lines 280-322                                    *)
(*   Correlate            lines 324-335                                    *)
(*   SimilarIncidents     lines 337-348                                    *)
(*   RootCause            lines 350-377                                    *)
(*   Assess               lines 379-468 (states, remediation gate, closure *)
(*                        memory, confidence, re-classification)           *)
(*   AttemptRead          lines 470-497                                    *)
(*   AttemptRecord        lines 499-506                                    *)
(*   ReturnResult         lines 508-537                                    *)
(* The tools, the LLM and build_client are the environment: their results  *)
(* are the parameters of the actions.  The attempt record's timestamp, the *)
(* attempt_message, the evidence links and the reasons, tier and next      *)
(* steps of a computed ConfidenceResult are not carried.                   *)
(***************************************************************************)
StartRun(r, question, service, env, progress_callback) ==
    /\ runs[r].pc \in {"idle", "done"}
    /\ \A q \in RunIds : q < r => runs[q].pc # "idle"
    /\ runs' = [runs EXCEPT ![r] =
                  [IdleRun EXCEPT !.pc = "check",
                                  !.question = question,
                                  !.service = service,
                                  !.env = env,
                                  !.progress_callback = progress_callback,
                                  !.fp = _scope_fingerprint(question, service, env)]]
    /\ UNCHANGED <<_attempt_history, _closure_memory, tops, completed, scored, obs_closures, matched, serviceVars>>
    /\ UNCHANGED breakerVars

degraded_result_mut_raise(run, e) == [run EXCEPT !.pc = "done", !.returned = "raised"]

\* the degraded PlannerOutput of lines 267-278; attempt_number is
\* inputs.attempt_number, which no caller sets (PlannerInput's default is 1)
degraded_result(run, e) ==
    LET msg == IF strip(e, Whitespace) # <<>> THEN strip(e, Whitespace)
               ELSE NotConfiguredMessage IN
    [run EXCEPT !.pc = "done",
                !.returned = "degraded",
                !.findings = <<>>,
                !.similar_incidents = <<>>,
                !.root_cause_candidates = <<msg>>,
                !.remediations = <<ConfigureRemediation>>,
                !.confidence = DegradedConfidence(msg),
                !.attempt_number = 1,
                !.missing_signals = <<"logs", "metrics", "traces", "incidents">>,
                !.artifacts = NewArtifacts,
                !.root_cause_states = <<>>,
                !.run_delta = NoDelta]

CheckElasticsearch(r, ok, e) ==
    /\ runs[r].pc = "check"
    /\ runs' = [runs EXCEPT ![r] =
                  IF ok THEN [@ EXCEPT !.pc = "gather"] ELSE degraded_result(@, e)]
    /\ completed' = IF ok THEN completed ELSE Append(completed, completion(runs'[r]))
    /\ UNCHANGED <<_attempt_history, _closure_memory, tops, scored, obs_closures, matched, serviceVars>>
    /\ UNCHANGED breakerVars

missing_after_gather(log_res, trace_res, metrics_res) ==
    (IF Len(log_res.evidence) = 0 THEN <<"logs">> ELSE <<>>)
    \o (IF Len(trace_res.evidence) = 0 THEN <<"traces">> ELSE <<>>)
    \o (IF Len(metrics_res.evidence) = 0 THEN <<"metrics">> ELSE <<>>)

gather(run, log_res, trace_res, metrics_res, changes_res) ==
    LET findings == log_res.evidence \o trace_res.evidence \o metrics_res.evidence
                    \o changes_res.evidence IN
    [run EXCEPT !.pc = "correlate",
                !.log_res = log_res,
                !.trace_res = trace_res,
                !.metrics_res = metrics_res,
                !.changes_res = changes_res,
                !.findings = findings,
                !.called = @ \cup {"tool_search_logs", "tool_search_traces",
                                   "tool_search_metrics", "tool_find_changes"},
                !.artifacts = [@ EXCEPT !.signals_gathered =
                                           [logs |-> Len(log_res.evidence),
                                            traces |-> Len(trace_res.evidence),
                                            metrics |-> Len(metrics_res.evidence),
                                            changes |-> Len(changes_res.evidence)],
                                        !.signals_total = Len(findings),
                                        !.gather_complete = TRUE],
                !.missing_signals = missing_after_gather(log_res, trace_res, metrics_res)]

Gather(r, log_res, trace_res, metrics_res, changes_res) ==
    /\ runs[r].pc = "gather"
    /\ runs' = [runs EXCEPT ![r] = gather(@, log_res, trace_res, metrics_res, changes_res)]
    /\ UNCHANGED <<_attempt_history, _closure_memory, tops, completed, scored, obs_closures, matched, serviceVars>>
    /\ UNCHANGED breakerVars

CorrelationUnit == 10
CorrelationOne == 30
SimilarBoost == 6

\* trace_ids is bound only inside `if progress_callback:` (line 327); without
\* a callback line 328 raises UnboundLocalError out of run_planner
correlate(run) ==
    LET source_types_with_data ==
            Cardinality({n \in SourceNames : run.artifacts.signals_gathered[n] > 0}) IN
    IF ~run.progress_callback
    THEN [run EXCEPT !.pc = "done", !.returned = "raised"]
    ELSE [run EXCEPT !.pc = "similar",
                     !.artifacts = [@ EXCEPT
                        !.correlation_score =
                            Min(CorrelationOne, CorrelationUnit * source_types_with_data),
                        !.correlate_complete = source_types_with_data >= 1]]

Correlate(r) ==
    /\ runs[r].pc = "correlate"
    /\ runs' = [runs EXCEPT ![r] = correlate(@)]
    /\ completed' = IF runs[r].progress_callback THEN completed
                    ELSE Append(completed, completion(runs'[r]))
    /\ UNCHANGED <<_attempt_history, _closure_memory, tops, scored, obs_closures, matched, serviceVars>>
    /\ UNCHANGED breakerVars

similar(run, inc_res) ==
    LET incidents == inc_res.evidence IN
    [run EXCEPT !.pc = "root_cause",
                !.called = @ \cup {"tool_find_similar_incidents"},
                !.inc_res = inc_res,
                !.similar_incidents = incidents,
                !.artifacts = IF incidents # <<>>
                              THEN [@ EXCEPT !.correlation_score =
                                                Min(CorrelationOne, @ + SimilarBoost)]
                              ELSE @,
                !.missing_signals = IF Len(incidents) = 0 THEN @ \o <<"incidents">> ELSE @]

SimilarIncidents(r, inc_res) ==
    /\ runs[r].pc = "similar"
    /\ runs' = [runs EXCEPT ![r] = similar(@, inc_res)]
    /\ UNCHANGED <<_attempt_history, _closure_memory, tops, completed, scored, obs_closures, matched, serviceVars>>
    /\ UNCHANGED breakerVars

\* lines 368-370: the root causes of the first incidents not yet in str(candidates)
RECURSIVE add_incident_causes(_, _)
add_incident_causes(candidates, incidents) ==
    IF incidents = <<>> THEN candidates
    ELSE LET rc == incidents[1].root_cause IN
         add_incident_causes(
            IF rc # <<>> /\ ~IsSubstring(rc, str_list(candidates))
            THEN Append(candidates, Prefix(rc, CandidateCut))
            ELSE candidates,
            Tail(incidents))

root_cause_candidates_mut_ungated(run, summary) ==
    IF summary # <<>> THEN <<strip(summary, Whitespace)>> ELSE <<InsufficientEvidence>>

\* summary is llm_root_cause_summary's result, <<>> for None (or an exception)
root_cause_candidates(run, summary) ==
    LET gated ==
            IF run.artifacts.correlate_complete
            THEN LET c1 == IF summary # <<>> THEN <<strip(summary, Whitespace)>> ELSE <<>>
                     c2 == add_incident_causes(c1, Prefix(run.similar_incidents, IncidentCut)) IN
                 IF c2 = <<>> /\ run.changes_res.evidence # <<>> THEN <<RecentDeployment>> ELSE c2
            ELSE <<>> IN
    IF gated = <<>> THEN <<InsufficientEvidence>> ELSE gated

propose_root_causes(run, summary) ==
    LET candidates == root_cause_candidates(run, summary) IN
    [run EXCEPT !.pc = "assess",
                !.called = IF run.artifacts.correlate_complete
                           THEN @ \cup {"llm_root_cause_summary"} ELSE @,
                !.root_cause_candidates = candidates,
                !.artifacts = [@ EXCEPT !.root_cause_complete =
                                  Len(candidates) > 0 /\ candidates[1] # InsufficientEvidence]]

RootCause(r, summary) ==
    /\ runs[r].pc = "root_cause"
    /\ runs' = [runs EXCEPT ![r] = propose_root_causes(@, summary)]
    /\ UNCHANGED <<_attempt_history, _closure_memory, tops, completed, scored, obs_closures, matched, serviceVars>>
    /\ UNCHANGED breakerVars

classify_all(texts, findings_count, correlation_score, similar_match, confidence) ==
    [i \in 1..Len(texts) |->
        [text |-> texts[i],
         state |-> _classify_root_cause_state(texts[i], findings_count, correlation_score,
                                              similar_match, confidence)]]

\* the loop of lines 397-404 over root_cause_states[i..]
RECURSIVE best_state_from(_, _, _)
best_state_from(states, i, best_state) ==
    IF i > Len(states) THEN best_state
    ELSE IF states[i].state = "confirmed" THEN "confirmed"
    ELSE IF states[i].state = "probable" /\ best_state # "confirmed"
    THEN best_state_from(states, i + 1, "probable")
    ELSE IF states[i].state = "correlated" /\ best_state \notin {"probable", "confirmed"}
    THEN best_state_from(states, i + 1, "correlated")
    ELSE best_state_from(states, i + 1, best_state)

best_state_of(states) == best_state_from(states, 1, "observed")

propose_gate_mut_correlated(best_state) == best_state \in {"correlated", "probable", "confirmed"}

\* line 406
propose_gate(best_state) == best_state \in {"probable", "confirmed"}

FixCut == 3

\* lines 406-417; fix_res is what tool_propose_fix answers when it is called
remediations_for(best_state, ok, fix_res) ==
    IF propose_gate(best_state)
    THEN IF ok
         THEN [i \in 1..Len(Prefix(fix_res, FixCut)) |->
                  [action |-> fix_res[i].proposed_action, risk_level |-> fix_res[i].risk_level]]
         ELSE <<GatherBeforeFix>>
    ELSE IF best_state = "correlated" THEN <<GatherToConfirm>>
    ELSE <<BroadenScope>>

\* lines 420-432
InjectionScore == 40

inject_closure(candidates, memory, match) ==
    IF match.closure # 0 /\ FloatGeq(match.score, Hundredths(InjectionScore))
    THEN LET past_rc == memory[match.closure].root_cause IN
         IF past_rc # <<>>
            /\ ~\E i \in 1..Len(candidates) : IsSubstring(past_rc, candidates[i])
         THEN Append(candidates, PastResolution \o Prefix(past_rc, CandidateCut))
         ELSE candidates
    ELSE candidates

assess(run, memory, fix_res) ==
    \* line 420: the closures are matched once
    CHOOSE assessment \in {
        LET findings == run.findings
            similar_match == run.similar_incidents # <<>>
            correlation_score == run.artifacts.correlation_score
            states == classify_all(run.root_cause_candidates, Len(findings), correlation_score,
                                   similar_match, FloatZero)
            best_state == best_state_of(states)
            citations == [i \in 1..Len(run.root_cause_candidates) |-> Prefix(findings, CitationCut)]
            ok == validate_before_propose(findings, run.similar_incidents, citations)
            has_log_burst == Len(run.log_res.evidence) > 0
            has_apm_errors == Len(run.trace_res.evidence) > 0
            has_latency == Len(run.metrics_res.evidence) > 0
            sources_available ==
                [n \in {"logs", "metrics", "traces", "incidents"} |->
                    CASE n = "logs" -> has_log_burst
                      [] n = "metrics" -> has_latency
                      [] n = "traces" -> has_apm_errors
                      [] OTHER -> similar_match]
            assessed ==
                [run EXCEPT !.pc = "attempt_read",
                            !.called = IF propose_gate(best_state) /\ ok
                                       THEN @ \cup {"tool_propose_fix"} ELSE @,
                            !.remediations = remediations_for(best_state, ok, fix_res),
                            !.closure_match_score = match.score,
                            !.root_cause_candidates = inject_closure(@, memory, match)] IN
        \* lines 445-464: the confidence is computed once, stored and used to
        \* re-classify the states (of the candidates before the injection)
        CHOOSE result \in
            {[assessed EXCEPT !.confidence = confidence,
                              !.root_cause_states =
                                  classify_all(run.root_cause_candidates, Len(run.findings),
                                               run.artifacts.correlation_score,
                                               run.similar_incidents # <<>>, confidence.confidence)] :
                confidence \in
                    {compute_confidence_elastic(has_apm_errors, has_log_burst, has_latency,
                                                similar_match, sources_available, Len(findings),
                                                run.time_range_label, closure_match_score) :
                        closure_match_score \in {match.score}}} : TRUE
        : match \in {_match_closures(memory, run.question, run.service, run.findings)}} : TRUE

Assess(r, fix_res) ==
    /\ runs[r].pc = "assess"
    /\ runs' = [runs EXCEPT ![r] = assess(@, _closure_memory, fix_res)]
    /\ UNCHANGED <<_attempt_history, _closure_memory, tops, completed, scored, obs_closures, matched, serviceVars>>
    /\ UNCHANGED breakerVars

\* lines 471-472: _attempt_history.get(fp, []) is the stored list itself when
\* the key has one and a fresh empty list otherwise
attempt_read(run, history) ==
    [run EXCEPT !.pc = "attempt_record",
                !.prev_attempts_shared = history[run.fp] # <<>>,
                !.attempt_number = Len(history[run.fp]) + 1]

AttemptRead(r) ==
    /\ runs[r].pc = "attempt_read"
    /\ runs' = [runs EXCEPT ![r] = attempt_read(@, _attempt_history)]
    /\ UNCHANGED <<_attempt_history, _closure_memory, tops, completed, scored, obs_closures, matched, serviceVars>>
    /\ UNCHANGED breakerVars

attempt_record(run) ==
    [attempt |-> run.attempt_number,
     confidence |-> run.confidence.confidence,
     missing |-> run.missing_signals,
     signals |-> run.artifacts.signals_gathered]

\* lines 500-506; tops remembers the top candidate that goes with each record
AttemptRecord(r) ==
    /\ runs[r].pc = "attempt_record"
    /\ _attempt_history' =
          [_attempt_history EXCEPT ![runs[r].fp] = Append(@, attempt_record(runs[r]))]
    /\ tops' = [tops EXCEPT ![runs[r].fp] = Append(@, runs[r].root_cause_candidates[1])]
    /\ runs' = [runs EXCEPT ![r] =
                  [@ EXCEPT !.pc = "delta",
                            !.record_index = Len(_attempt_history[runs[r].fp]) + 1]]
    /\ UNCHANGED <<_closure_memory, completed, scored, obs_closures, matched, serviceVars>>
    /\ UNCHANGED breakerVars

sum_values(signals) ==
    signals["logs"] + signals["traces"] + signals["metrics"] + signals["changes"]

\* lines 509-521: prev_attempts is the list read at line 471
run_delta_of(run, history) ==
    IF ~run.prev_attempts_shared THEN NoDelta
    ELSE LET prev_attempts == history[run.fp]
             prev_run == prev_attempts[Len(prev_attempts)] IN
         [empty |-> FALSE,
          signals_added |-> run.artifacts.signals_total - sum_values(prev_run.signals),
          confidence_delta |-> FloatSub(run.confidence.confidence, prev_run.confidence),
          missing_resolved |-> Range(prev_run.missing) \ Range(run.missing_signals),
          root_cause_changed |-> run.root_cause_candidates # <<>>
                                 /\ run.root_cause_candidates[1] # InsufficientEvidence]

ReturnResult(r) ==
    /\ runs[r].pc = "delta"
    /\ LET result == [runs[r] EXCEPT !.pc = "done",
                                     !.returned = "result",
                                     !.run_delta = run_delta_of(runs[r], _attempt_history)] IN
       /\ runs' = [runs EXCEPT ![r] = result]
       /\ completed' = Append(completed, completion(result))
    /\ UNCHANGED <<_attempt_history, _closure_memory, tops, scored, obs_closures, matched, serviceVars>>
    /\ UNCHANGED breakerVars

(***************************************************************************)
(* The environment of run_planner: the scopes asked about, what the tools, *)
(* the LLM and build_client answer, and the closures already remembered.   *)
(***************************************************************************)
MaxEvidence == 2
MaxSeqRuns == 3
MaxParRuns == 2

Scope(question, service, env) == [question |-> question, service |-> service, env |-> env]

\* " Slow db " / "Api" and "slow db" / "api" are one scope; "a|b" / "c" and
\* "a" / "b|c" are two
Scopes ==
    {Scope(<<" ", "S", "l", "o", "w", " ", "d", "b", " ">>, <<"A", "p", "i">>, <<>>),
     Scope(<<"s", "l", "o", "w", " ", "d", "b">>, <<"a", "p", "i">>, <<>>),
     Scope(<<"a", "|", "b">>, <<"c">>, <<>>),
     Scope(<<"a">>, <<"b", "|", "c">>, <<>>)}

Fingerprints == {_scope_fingerprint(sc.question, sc.service, sc.env) : sc \in Scopes}

Evidence(item, n) == [i \in 1..n |-> item]

LogItem == [message |-> <<"p", "o", "o", "l", " ", "t", "i", "m", "e", "o", "u", "t">>, trace |-> FALSE]
TraceItem == [message |-> <<>>, trace |-> TRUE]
MetricItem == [message |-> <<"l", "a", "t", "e", "n", "c", "y">>, trace |-> FALSE]
ChangeItem == [message |-> <<"d", "e", "p", "l", "o", "y">>, trace |-> FALSE]

LogResponses == {tool_result(Value(Evidence(LogItem, n))) : n \in 0..MaxEvidence}
TraceResponses == {tool_result(Value(Evidence(TraceItem, n))) : n \in 0..MaxEvidence}
MetricResponses == {tool_result(Value(Evidence(MetricItem, n))) : n \in 0..MaxEvidence}
ChangeResponses == {tool_result(Value(Evidence(ChangeItem, n))) : n \in 0..1}

IncidentLists ==
    {<<>>,
     <<[root_cause |-> <<"p", "o", "o", "l">>]>>,
     <<[root_cause |-> <<>>]>>}

IncidentResponses == {tool_result(Value(i)) : i \in IncidentLists}

\* None, a summary to be stripped, a summary naming the incident's root cause
Summaries ==
    {<<>>,
     <<" ", "c", "a", "c", "h", "e", " ", "m", "i", "s", "s", " ">>,
     <<"p", "o", "o", "l", " ", "e", "x", "h", "a", "u", "s", "t", "e", "d">>}

FixResponses ==
    {<<>>,
     <<[proposed_action |-> "Restart the connection pool", risk_level |-> "medium"]>>}

\* str(e) of the exception build_client raises
BuildErrors ==
    {<<>>,
     <<" ", "S", "e", "t", " ", "E", "L", "A", "S", "T", "I", "C", "_", "U",
      "R", "L", " ">>}

Closure(root_cause, service, question_keywords, signals_used) ==
    [root_cause |-> root_cause, service |-> service,
     question_keywords |-> question_keywords, signals_used |-> signals_used]

ClosureMemories ==
    {<<>>,
     <<Closure(<<"p", "o", "o", "l", " ", "t", "i", "m", "e", "o", "u", "t", " ", "l", "e", "a", "k">>, <<"a", "p", "i">>, {<<"s", "l", "o", "w">>}, {"logs"})>>,
     <<Closure(<<"p", "o", "o", "l", " ", "t", "i", "m", "e", "o", "u", "t", " ", "l", "e", "a", "k">>, <<>>, {<<"s", "l", "o", "w">>, <<"d", "i", "s", "k">>}, {"logs"}),
       Closure(<<"c", "a", "c", "h", "e", " ", "m", "i", "s", "s">>, <<"a", "p", "i">>, {<<"s", "l", "o", "w">>}, {})>>,
     <<Closure(<<>>, <<"a", "p", "i">>, {<<"s", "l", "o", "w">>}, {"logs"})>>}

InitPlanner(ids, memories) ==
    /\ InitResilience
    /\ _attempt_history = [fp \in Fingerprints |-> <<>>]
    /\ _closure_memory \in memories
    /\ runs = [r \in ids |-> IdleRun]
    /\ tops = [fp \in Fingerprints |-> <<>>]
    /\ completed = <<>>
    /\ scored = NotScored
    /\ obs_closures = <<>>
    /\ matched = NotMatched
    /\ InitServices

InFlight == Cardinality({r \in RunIds : runs[r].pc \notin {"idle", "done"}})
Started == Len(completed) + InFlight

(***************************************************************************)
(* Direct calls of _match_closures, as the tests make them, on a closure   *)
(* memory of up to MaxMemory records.                                      *)
(***************************************************************************)
MaxMemory == 2

MatchQuestions ==
    {<<>>, <<"w", "h", "y", " ", "s", "l", "o", "w">>, <<"S", "l", "o", "w", " ", "d", "i", "s", "k", "?">>,
     <<"s", "l", "o", "w", " ", "d", "i", "s", "k", " ", "f", "u", "l", "l">>}

MatchServices == {<<>>, <<"a", "p", "i">>, <<"A", "P", "I">>, <<"d", "b">>}

MatchFindings ==
    {<<>>, <<LogItem>>, <<TraceItem>>, <<MetricItem>>, <<TraceItem, LogItem>>}

MatchClosures ==
    {Closure(<<"p", "o", "o", "l", " ", "t", "i", "m", "e", "o", "u", "t", " ", "l", "e", "a", "k">>, <<"a", "p", "i">>, {<<"s", "l", "o", "w">>}, {"logs"}),
     Closure(<<"L", "a", "t", "e", "n", "c", "y">>, <<>>, {<<"s", "l", "o", "w">>, <<"d", "i", "s", "k">>}, {"traces"}),
     Closure(<<>>, <<"a", "p", "i">>, {<<"d", "i", "s", "k">>, <<"f", "u", "l", "l">>, <<"n", "o", "d", "e">>}, {}),
     Closure(<<"d", "b">>, <<"A", "p", "i">>, {}, {"logs", "traces"}),
     Closure(<<"d", "i", "s", "k">>, <<"d", "b">>, {<<"s", "l", "o", "w">>, <<"d", "i", "s", "k">>, <<"f", "u", "l", "l">>}, {"metrics"})}

MatchMemories ==
    {<<>>} \cup {<<c>> : c \in MatchClosures}
           \cup {<<c, d>> : c \in MatchClosures, d \in MatchClosures}

InitMatch ==
    /\ InitResilience
    /\ _attempt_history = <<>>
    /\ _closure_memory \in {memory \in MatchMemories : Len(memory) <= MaxMemory}
    /\ runs = <<>>
    /\ tops = <<>>
    /\ completed = <<>>
    /\ scored = NotScored
    /\ obs_closures = <<>>
    /\ matched = NotMatched
    /\ InitServices

Match(question, service, findings) ==
    /\ ~matched.called
    /\ matched' = [called |-> TRUE, question |-> question, service |-> service,
                   findings |-> findings,
                   result |-> _match_closures(_closure_memory, question, service, findings)]
    /\ UNCHANGED <<_attempt_history, _closure_memory, runs, tops, completed, scored, obs_closures, serviceVars>>
    /\ UNCHANGED breakerVars

NextMatch ==
    \E question \in MatchQuestions, service \in MatchServices, findings \in MatchFindings :
        Match(question, service, findings)

SpecMatch == InitMatch /\ [][NextMatch]_vars

(***************************************************************************)
(* record_closure, load_closures_from_es and get_closure_memory.  A        *)
(* document of the index "obs-closures-current" and a record of            *)
(* _closure_memory carry the same fields; the keywords, a set in memory    *)
(* and a list in the document, are a set here.  time.time() is the clock,  *)
(* which a call of record_closure advances.                                *)
(***************************************************************************)
MemoryLimit == 100
SearchSize == 100

closure_doc(root_cause, signals_used, service, question, timestamp) ==
    [root_cause |-> root_cause, service |-> service,
     question_keywords |-> _extract_keywords(question), signals_used |-> signals_used,
     timestamp |-> timestamp]

\* lines 120-122: _closure_memory.append(...), then pop(0) above the limit
record_closure(memory, doc) ==
    LET appended == Append(memory, doc) IN
    IF Len(appended) > MemoryLimit THEN Tail(appended) ELSE appended

\* the search of lines 138-141: the SearchSize documents of the greatest
\* @timestamp, greatest first.  The index is in the order of indexing, which
\* is the order of @timestamp.
search_closures(index) ==
    [k \in 1..Min(SearchSize, Len(index)) |-> index[Len(index) + 1 - k]]

\* ok: the client is built and the search answers
load_closures_from_es(memory, index, ok) ==
    IF ok /\ search_closures(index) # <<>> THEN search_closures(index) ELSE memory

\* list(keywords): the members in some order
list(keywords) == CHOOSE l \in [1..Cardinality(keywords) -> keywords] : Range(l) = keywords

\* the store as get_closure_memory returns it: the keyword sets as lists
get_closure_memory(memory) ==
    [i \in 1..Len(memory) |-> [memory[i] EXCEPT !.question_keywords = list(@)]]

(***************************************************************************)
(* One deployment: closures are recorded (POST /debug/close) and the       *)
(* process is restarted, which empties _closure_memory and runs the        *)
(* startup hook of app/main.py.  The index may fail during the first       *)
(* MaxOutage calls of record_closure.                                      *)
(***************************************************************************)
MaxClosures == 102
MaxOutage == 2

ClosureInputs ==
    {[root_cause |-> <<"p", "o", "o", "l", " ", "l", "e", "a", "k">>, signals_used |-> {"logs"}, service |-> <<"a", "p", "i">>,
      question |-> <<"w", "h", "y", " ", "s", "l", "o", "w">>]}

\* the record is stored only once it is indexed
RecordClosure_mut_needs_index(input, index_ok) ==
    /\ now < MaxClosures
    /\ ~index_ok => now < MaxOutage
    /\ LET doc == closure_doc(input.root_cause, input.signals_used, input.service,
                              input.question, now) IN
       /\ _closure_memory' = IF index_ok THEN record_closure(_closure_memory, doc)
                             ELSE _closure_memory
       /\ obs_closures' = IF index_ok THEN Append(obs_closures, doc) ELSE obs_closures
    /\ now' = now + 1
    /\ UNCHANGED <<breakers, _breakers, calls, sinceSuccess, probes>>
    /\ UNCHANGED <<_attempt_history, runs, tops, completed, scored, matched, serviceVars>>

\* index_ok: the client is built and client.index answers; otherwise the
\* exception is logged and the call returns
RecordClosure(input, index_ok) ==
    /\ now < MaxClosures
    /\ ~index_ok => now < MaxOutage
    /\ LET doc == closure_doc(input.root_cause, input.signals_used, input.service,
                              input.question, now) IN
       /\ _closure_memory' = record_closure(_closure_memory, doc)
       /\ obs_closures' = IF index_ok THEN Append(obs_closures, doc) ELSE obs_closures
    /\ now' = now + 1
    /\ UNCHANGED <<breakers, _breakers, calls, sinceSuccess, probes>>
    /\ UNCHANGED <<_attempt_history, runs, tops, completed, scored, matched, serviceVars>>

\* a new process: lifespan calls load_closures_from_es when the cluster is
\* healthy
Startup(ok) ==
    /\ _closure_memory' = load_closures_from_es(<<>>, obs_closures, ok)
    /\ UNCHANGED breakerVars
    /\ UNCHANGED <<_attempt_history, runs, tops, completed, scored, obs_closures, matched, serviceVars>>

NextClosures ==
    \/ \E input \in ClosureInputs, index_ok \in BOOLEAN : RecordClosure(input, index_ok)
    \/ \E ok \in BOOLEAN : Startup(ok)

SpecClosures == InitBreaker /\ [][NextClosures]_vars

(***************************************************************************)
(* One run_planner call with every answer of the environment.              *)
(***************************************************************************)
InitRun == InitPlanner({1}, ClosureMemories)

NextRun ==
    \/ \E r \in RunIds, sc \in Scopes, cb \in BOOLEAN :
          Started = 0 /\ StartRun(r, sc.question, sc.service, sc.env, cb)
    \/ \E r \in RunIds, ok \in BOOLEAN, e \in BuildErrors : CheckElasticsearch(r, ok, e)
    \/ \E r \in RunIds, l \in LogResponses, t \in TraceResponses,
          m \in MetricResponses, c \in ChangeResponses : Gather(r, l, t, m, c)
    \/ \E r \in RunIds : Correlate(r)
    \/ \E r \in RunIds, i \in IncidentResponses : SimilarIncidents(r, i)
    \/ \E r \in RunIds, summary \in Summaries : RootCause(r, summary)
    \/ \E r \in RunIds, f \in FixResponses : Assess(r, f)
    \/ \E r \in RunIds : AttemptRead(r)
    \/ \E r \in RunIds : AttemptRecord(r)
    \/ \E r \in RunIds : ReturnResult(r)

SpecRun == InitRun /\ [][NextRun]_vars

(***************************************************************************)
(* Calls made one after another by one caller.                             *)
(***************************************************************************)
InitSeq == InitPlanner({1}, {<<>>})

NextSeq ==
    \/ \E r \in RunIds, sc \in Scopes :
          Started < MaxSeqRuns /\ StartRun(r, sc.question, sc.service, sc.env, TRUE)
    \/ \E r \in RunIds : CheckElasticsearch(r, TRUE, <<>>)
    \/ \E r \in RunIds, n \in {0, MaxEvidence} :
          Gather(r, tool_result(Value(Evidence(LogItem, n))), tool_result(Value(<<>>)),
                 tool_result(Value(<<>>)), tool_result(Value(<<>>)))
    \/ \E r \in RunIds : Correlate(r)
    \/ \E r \in RunIds, i \in {<<>>, <<[root_cause |-> <<>>]>>} :
          SimilarIncidents(r, tool_result(Value(i)))
    \/ \E r \in RunIds, summary \in {<<>>, <<"p", "o", "o", "l", " ", "e", "x", "h", "a", "u", "s", "t", "e", "d">>} :
          RootCause(r, summary)
    \/ \E r \in RunIds : Assess(r, <<>>)
    \/ \E r \in RunIds : AttemptRead(r)
    \/ \E r \in RunIds : AttemptRecord(r)
    \/ \E r \in RunIds : ReturnResult(r)

SpecSeq == InitSeq /\ [][NextSeq]_vars

(***************************************************************************)
(* Calls made by the worker threads of concurrent requests                 *)
(* (api/routes_stream.py runs each run_planner call in its own thread).    *)
(***************************************************************************)
InitPar == InitPlanner({1, 2}, {<<>>})

NextPar ==
    \/ \E r \in RunIds, sc \in Scopes :
          Started < MaxParRuns /\ StartRun(r, sc.question, sc.service, sc.env, TRUE)
    \/ \E r \in RunIds : CheckElasticsearch(r, TRUE, <<>>)
    \/ \E r \in RunIds, n \in {0, MaxEvidence} :
          Gather(r, tool_result(Value(Evidence(LogItem, n))), tool_result(Value(<<>>)),
                 tool_result(Value(<<>>)), tool_result(Value(<<>>)))
    \/ \E r \in RunIds : Correlate(r)
    \/ \E r \in RunIds : SimilarIncidents(r, tool_result(Value(<<>>)))
    \/ \E r \in RunIds : RootCause(r, <<>>)
    \/ \E r \in RunIds : Assess(r, <<>>)
    \/ \E r \in RunIds : AttemptRead(r)
    \/ \E r \in RunIds : AttemptRecord(r)
    \/ \E r \in RunIds : ReturnResult(r)

SpecPar == InitPar /\ [][NextPar]_vars

(***************************************************************************)
(* One run_planner call whose queries may fail: by the exception of the    *)
(* last retry or, the breaker being open, by CircuitOpen                   *)
(* (resilience.py:103).  str(e) of both is a non-empty text.               *)
(***************************************************************************)
ConnectionErrorText ==
    <<"C", "o", "n", "n", "e", "c", "t", "i", "o", "n", " ", "r", "e", "f",
      "u", "s", "e", "d">>

CircuitOpenText ==
    <<"C", "i", "r", "c", "u", "i", "t", " ", "b", "r", "e", "a", "k", "e",
      "r", " ", "i", "s", " ", "o", "p", "e", "n">>

QueryFailures == {Raised(ConnectionErrorText), Raised(CircuitOpenText)}

QueryOutcomes(item) == {Value(<<>>), Value(Evidence(item, 1))} \cup QueryFailures

IncidentOutcomes == {Value(i) : i \in IncidentLists} \cup QueryFailures

InitFail == InitPlanner({1}, {<<>>})

NextFail ==
    \/ \E r \in RunIds, sc \in Scopes, cb \in BOOLEAN :
          Started = 0 /\ sc.service = <<"c">>
          /\ StartRun(r, sc.question, sc.service, sc.env, cb)
    \/ \E r \in RunIds : CheckElasticsearch(r, TRUE, <<>>)
    \/ \E r \in RunIds, l \in QueryOutcomes(LogItem), t \in QueryOutcomes(TraceItem),
          m \in QueryOutcomes(MetricItem), c \in QueryOutcomes(ChangeItem) :
          Gather(r, tool_result(l), tool_result(t), tool_result(m), tool_result(c))
    \/ \E r \in RunIds : Correlate(r)
    \/ \E r \in RunIds, i \in IncidentOutcomes : SimilarIncidents(r, tool_result(i))
    \/ \E r \in RunIds, summary \in Summaries : RootCause(r, summary)
    \/ \E r \in RunIds, f \in FixResponses : Assess(r, f)
    \/ \E r \in RunIds : AttemptRead(r)
    \/ \E r \in RunIds : AttemptRecord(r)
    \/ \E r \in RunIds : ReturnResult(r)

SpecFail == InitFail /\ [][NextFail]_vars

(***************************************************************************)
(* retrieval/hybrid_query.py and retrieval/similar_incidents.py.  A hit    *)
(* list is the ranked list of the _id values of one search response; the   *)
(* ids of one response are distinct.  embed_text either returns a vector   *)
(* or raises: EmbeddingUnavailableError from _get_model, ValueError for a  *)
(* blank text (or whatever model.encode raises).                           *)
(***************************************************************************)
RRF_K == 60

EmbedOutcomes == {"vector", "EmbeddingUnavailableError", "ValueError"}

_rrf_score_mut_one_based(rank) == Ratio(1, RRF_K + rank + 1)

_rrf_score(rank) == Ratio(1, RRF_K + rank)

\* client.search(..., size): the first `size` hits of the ranking
search(hits, size) == SubSeq(hits, 1, Min(Len(hits), size))

NewScore(doc_id) == [doc_id |-> doc_id, score_lexical |-> FloatZero, score_vector |-> FloatZero]

add_lexical(score, rank) == [score EXCEPT !.score_lexical = FloatAdd(@, _rrf_score(rank))]

add_vector(score, rank) == [score EXCEPT !.score_vector = FloatAdd(@, _rrf_score(rank))]

\* the dict `scores`, in insertion order, after the hits from position i on
\* of one response are added to it
RECURSIVE add_hits(_, _, _, _)
add_hits(scores, hits, i, column) ==
    IF i > Len(hits) THEN scores
    ELSE LET known == {k \in 1..Len(scores) : scores[k].doc_id = hits[i]} IN
         IF known = {}
         THEN add_hits(Append(scores, IF column = "lexical" THEN add_lexical(NewScore(hits[i]), i - 1)
                                      ELSE add_vector(NewScore(hits[i]), i - 1)),
                       hits, i + 1, column)
         ELSE add_hits([k \in 1..Len(scores) |->
                           IF k \notin known THEN scores[k]
                           ELSE IF column = "lexical" THEN add_lexical(scores[k], i - 1)
                           ELSE add_vector(scores[k], i - 1)],
                       hits, i + 1, column)

fuse(score) ==
    [doc_id |-> score.doc_id, score_lexical |-> score.score_lexical, score_vector |-> score.score_vector,
     score_fused |-> FloatAdd(score.score_lexical, score.score_vector)]

\* sorted(scores.keys(), key=lambda x: -scores[x][2]) of the first i keys: a
\* stable sort, so a key goes behind the keys of the same or a higher score
RECURSIVE sorted(_, _)
sorted(scores, i) ==
    IF i = 0 THEN <<>>
    ELSE LET before == sorted(scores, i - 1)
             k == Cardinality({j \in 1..Len(before) : ~FloatLess(before[j].score_fused, scores[i].score_fused)}) IN
         SubSeq(before, 1, k) \o <<scores[i]>> \o SubSeq(before, k + 1, Len(before))

\* str(e) of what embed_text raised for a blank text
EmbedError == <<"e", "m", "b", "e", "d">>

\* hybrid_query on an index whose lexical ranking is lexical_hits and whose
\* kNN ranking is vector_hits; searchable: client.search answers
hybrid_query(embedded, searchable, lexical_hits, vector_hits, top_k) ==
    LET vector_resp == IF embedded = "vector" /\ searchable THEN search(vector_hits, top_k * 2) ELSE <<>>
        lexical_resp == search(lexical_hits, top_k * 2)
        scores == add_hits(add_hits(<<>>, lexical_resp, 1, "lexical"), vector_resp, 1, "vector")
        fused == [k \in 1..Len(scores) |-> fuse(scores[k])]
        order == sorted(fused, Len(fused)) IN
    IF ~searchable THEN Raised(ConnectionErrorText)
    ELSE Value(SubSeq(order, 1, Min(Len(order), top_k)))

\* the hits similar_incidents keeps, from position i on, with `out` kept so far
RECURSIVE kept_incidents(_, _, _, _, _, _)
kept_incidents(hits, i, out, service, env, top_k) ==
    IF i > Len(hits) THEN out
    ELSE IF service # "" /\ hits[i].service # "" /\ hits[i].service # service
         THEN kept_incidents(hits, i + 1, out, service, env, top_k)
    ELSE IF env # "" /\ hits[i].env # env THEN kept_incidents(hits, i + 1, out, service, env, top_k)
    ELSE IF Len(out) >= top_k THEN out
    ELSE kept_incidents(hits, i + 1, Append(out, hits[i]), service, env, top_k)

similar_incidents(embedded, searchable, hits, service, env, top_k) ==
    IF embedded = "EmbeddingUnavailableError" THEN Value(<<>>)
    ELSE IF embedded # "vector" THEN Raised(EmbedError)
    ELSE IF ~searchable THEN Raised(ConnectionErrorText)
    ELSE Value(kept_incidents(search(hits, top_k * 2), 1, <<>>, service, env, top_k))

\* tool_find_similar_incidents when every attempt of its retry_with_backoff
\* ends as similar_incidents ends here
tool_find_similar_incidents(embedded, searchable, hits, service, env, top_k) ==
    tool_result(similar_incidents(embedded, searchable, hits, service, env, top_k))

(***************************************************************************)
(* Direct calls of hybrid_query and of the similar-incident search.        *)
(***************************************************************************)
MaxTopK == 2
MaxHits == 3

Docs == {"d1", "d2", "d3"}

RECURSIVE Rankings(_, _)
Rankings(ids, n) ==
    IF n = 0 THEN {<<>>}
    ELSE Rankings(ids, n - 1) \cup
         {Append(r, d) : r \in {q \in Rankings(ids, n - 1) : Len(q) = n - 1}, d \in ids}

\* the rankings of up to MaxHits distinct documents
HitLists == {r \in Rankings(Docs, MaxHits) : \A i, j \in 1..Len(r) : i # j => r[i] # r[j]}

IncidentServices == {"", "api", "db"}
IncidentEnvs == {"", "prod"}

IncidentHits ==
    {<<>>} \cup {<<[incident_id |-> "i1", service |-> s, env |-> e]>> : s \in IncidentServices, e \in IncidentEnvs}
           \cup {<<[incident_id |-> "i1", service |-> s, env |-> "prod"], [incident_id |-> "i2", service |-> "api", env |-> e]>> :
                     s \in IncidentServices, e \in IncidentEnvs}

HybridQuery(embedded, searchable, lexical_hits, vector_hits, top_k) ==
    /\ ~retrieved.called
    /\ retrieved' = [called |-> TRUE, function |-> "hybrid_query", embedded |-> embedded, searchable |-> searchable,
                     lexical_hits |-> lexical_hits, vector_hits |-> vector_hits, top_k |-> top_k,
                     result |-> hybrid_query(embedded, searchable, lexical_hits, vector_hits, top_k)]
    /\ UNCHANGED <<_attempt_history, _closure_memory, runs, tops, completed, scored, obs_closures, matched>>
    /\ UNCHANGED <<lookups, llm, stream>>
    /\ UNCHANGED breakerVars

FindSimilarIncidents(embedded, searchable, hits, service, env, top_k) ==
    /\ ~retrieved.called
    /\ retrieved' = [called |-> TRUE, function |-> "tool_find_similar_incidents", embedded |-> embedded,
                     searchable |-> searchable, hits |-> hits, service |-> service, env |-> env, top_k |-> top_k,
                     incidents |-> similar_incidents(embedded, searchable, hits, service, env, top_k),
                     result |-> tool_find_similar_incidents(embedded, searchable, hits, service, env, top_k)]
    /\ UNCHANGED <<_attempt_history, _closure_memory, runs, tops, completed, scored, obs_closures, matched>>
    /\ UNCHANGED <<lookups, llm, stream>>
    /\ UNCHANGED breakerVars

NextRetrieval ==
    \/ \E embedded \in EmbedOutcomes, searchable \in BOOLEAN, lexical_hits \in HitLists, vector_hits \in HitLists,
          top_k \in 1..MaxTopK :
           HybridQuery(embedded, searchable, lexical_hits, vector_hits, top_k)
    \/ \E embedded \in EmbedOutcomes, searchable \in BOOLEAN, hits \in IncidentHits, service \in IncidentServices,
          env \in IncidentEnvs, top_k \in 1..MaxTopK :
           FindSimilarIncidents(embedded, searchable, hits, service, env, top_k)

SpecRetrieval == InitBreaker /\ [][NextRetrieval]_vars

(***************************************************************************)
(* get_breaker called from parallel threads (the runs of concurrent        *)
(* requests, each in its own thread).  The function takes no lock, so a    *)
(* thread can be suspended after each of its lines:                        *)
(*   CheckBreaker    line 75: `if name not in _breakers`                    *)
(*   InsertBreaker   line 76: `_breakers[name] = CircuitBreaker(...)`       *)
(*   ReturnBreaker   line 77: `return _breakers[name]`                      *)
(* A thread then uses the breaker it was given.                            *)
(***************************************************************************)
CheckBreaker(c, name, failure_threshold, recovery_timeout) ==
    /\ lookups[c].pc \in {"idle", "holding"}
    /\ lookups' = [lookups EXCEPT ![c] =
                      [pc |-> IF _breakers[name] = 0 THEN "insert" ELSE "return",
                       name |-> name, failure_threshold |-> failure_threshold,
                       recovery_timeout |-> recovery_timeout, got |-> 0]]
    /\ UNCHANGED <<_attempt_history, _closure_memory, runs, tops, completed, scored, obs_closures, matched>>
    /\ UNCHANGED <<retrieved, llm, stream>>
    /\ UNCHANGED breakerVars

InsertBreaker(c) ==
    /\ lookups[c].pc = "insert"
    /\ breakers' = Append(breakers, NewCircuitBreaker(lookups[c].name, lookups[c].failure_threshold,
                                                      lookups[c].recovery_timeout))
    /\ _breakers' = [_breakers EXCEPT ![lookups[c].name] = Len(breakers) + 1]
    /\ sinceSuccess' = Append(sinceSuccess, 0)
    /\ probes' = Append(probes, 0)
    /\ lookups' = [lookups EXCEPT ![c].pc = "return"]
    /\ UNCHANGED <<now, calls>>
    /\ UNCHANGED <<_attempt_history, _closure_memory, runs, tops, completed, scored, obs_closures, matched>>
    /\ UNCHANGED <<retrieved, llm, stream>>

ReturnBreaker(c) ==
    /\ lookups[c].pc = "return"
    /\ lookups' = [lookups EXCEPT ![c].pc = "holding", ![c].got = _breakers[lookups[c].name]]
    /\ UNCHANGED <<_attempt_history, _closure_memory, runs, tops, completed, scored, obs_closures, matched>>
    /\ UNCHANGED <<retrieved, llm, stream>>
    /\ UNCHANGED breakerVars

\* the threads that hold a breaker
Holders == {c \in Callers : lookups[c].pc = "holding"}

NextRegistry ==
    \/ \E c \in Callers, name \in BreakerNames, failure_threshold \in Thresholds, recovery_timeout \in Timeouts :
           CheckBreaker(c, name, failure_threshold, recovery_timeout)
    \/ \E c \in Callers : InsertBreaker(c)
    \/ \E c \in Callers : ReturnBreaker(c)
    \/ \E c \in Holders : RecordFailure(lookups[c].got)
    \/ \E c \in Holders : RecordSuccess(lookups[c].got)
    \/ \E c \in Holders : AllowRequest(lookups[c].got)
    \/ Tick

SpecRegistry == InitBreaker /\ [][NextRegistry]_vars

(***************************************************************************)
(* agent/llm.py: llm_complete over the provider chain of the process, one  *)
(* breaker per model.  The prompt plays no part; _call_llm returns a       *)
(* non-empty text or raises.  The steps of one call are the suspension     *)
(* points of its thread:                                                   *)
(*   LlmComplete       line 104-127: the chain is read and the providers   *)
(*                     are asked in order until the breaker of one allows  *)
(*                     the request; retry_with_backoff starts on it        *)
(*   Attempt, Return, Wake   retry_with_backoff, without a breaker          *)
(*   ProviderReturned  line 128-141: the retry returned or raised; after a *)
(*                     failure the loop goes on to the next provider       *)
(***************************************************************************)
LlmFailureThreshold == 3
LlmRecoveryTimeout == 60
LlmMaxRetries == 2
LlmBaseDelay == 1
LlmMaxDelay == 5

MaxLlmCalls == 4        \* llm_complete calls of one behaviour
MaxLlmTime == 70        \* the clock stops here

LlmCaller == "t1"

\* _get_provider_chain: the models that have a key, the preferred one first;
\* LLM_PROVIDER=gemini puts the Google model in front and again in its
\* fallback place
Chains == {<<>>, <<"groq">>, <<"groq", "gemini">>, <<"gemini", "groq", "gemini">>}

response_text(model) == "text of " \o model

Tried(model, denied, outcome, attempts) ==
    [model |-> model, denied |-> denied, outcome |-> outcome, attempts |-> attempts]

\* line 114-118 from provider i on, at time t: the provider the loop stops
\* at (Len(chain) + 1: none), the heap and the registry after the
\* get_breaker and allow_request calls made on the way
RECURSIVE next_provider(_, _, _, _, _, _)
next_provider(heap, reg, chain, i, tried, t) ==
    IF i > Len(chain) THEN [heap |-> heap, reg |-> reg, i |-> i, id |-> 0, denied |-> FALSE, tried |-> tried]
    ELSE LET g == get_breaker(heap, reg, llm_breaker(chain[i]), LlmFailureThreshold, LlmRecoveryTimeout)
             cb == state(g.heap[g.id], t) IN
         IF allow_request(cb)
         THEN [heap |-> [g.heap EXCEPT ![g.id] = cb], reg |-> g.reg, i |-> i, id |-> g.id,
               denied |-> OpenNotElapsed(g.heap[g.id], t), tried |-> tried]
         ELSE next_provider([g.heap EXCEPT ![g.id] = cb], g.reg, chain, i + 1,
                            Append(tried, Tried(chain[i], OpenNotElapsed(g.heap[g.id], t), "skipped", 0)), t)

\* the loop has stopped at a provider (the retry starts) or at the end of
\* the chain (None is returned)
Proceed(n, chain, count, since) ==
    /\ breakers' = n.heap
    /\ _breakers' = n.reg
    /\ sinceSuccess' = since \o Zeros(Len(n.heap) - Len(breakers))
    /\ probes' = [b \in 1..Len(n.heap) |->
                     IF b = n.id /\ n.heap[b].state = "half-open" THEN probes[b] + 1
                     ELSE IF b <= Len(probes) THEN probes[b] ELSE 0]
    /\ IF n.i > Len(chain)
       THEN /\ llm' = [pc |-> "returned", chain |-> chain, i |-> n.i, id |-> 0, denied |-> FALSE, tried |-> n.tried,
                       result |-> None, count |-> count]
            /\ UNCHANGED calls
       ELSE /\ llm' = [pc |-> "calling", chain |-> chain, i |-> n.i, id |-> n.id, denied |-> n.denied, tried |-> n.tried,
                       result |-> None, count |-> count]
            /\ calls' = [calls EXCEPT ![LlmCaller] =
                            [pc |-> "attempt", brk |-> 0, attempt |-> 0, max_retries |-> LlmMaxRetries,
                             base_delay |-> LlmBaseDelay, max_delay |-> LlmMaxDelay, has_fallback |-> FALSE,
                             outcome |-> "none", wake |-> 0, results |-> <<>>, waits |-> <<>>, last_exc |-> 0]]

LlmComplete(chain) ==
    /\ llm.pc \in {"idle", "returned"}
    /\ llm.pc = "returned" => chain = llm.chain
    /\ llm.count < MaxLlmCalls
    /\ Proceed(next_provider(breakers, _breakers, chain, 1, <<>>, now), chain, llm.count + 1, sinceSuccess)
    /\ UNCHANGED now
    /\ UNCHANGED <<_attempt_history, _closure_memory, runs, tops, completed, scored, obs_closures, matched>>
    /\ UNCHANGED <<retrieved, lookups, stream>>

ProviderReturned_mut_gives_up ==
    LET call == calls[LlmCaller]
        model == llm.chain[llm.i] IN
    /\ llm.pc = "calling"
    /\ call.pc = "done"
    /\ IF call.outcome = "value"
       THEN /\ breakers' = [breakers EXCEPT ![llm.id] = record_success(@)]
            /\ sinceSuccess' = [sinceSuccess EXCEPT ![llm.id] = 0]
            /\ probes' = [probes EXCEPT ![llm.id] = 0]
            /\ llm' = [llm EXCEPT !.pc = "returned", !.result = response_text(model),
                                  !.tried = Append(@, Tried(model, llm.denied, "value", Len(call.results)))]
       ELSE /\ breakers' = [breakers EXCEPT ![llm.id] = record_failure(@, now)]
            /\ sinceSuccess' = [sinceSuccess EXCEPT ![llm.id] = @ + 1]
            /\ probes' = [probes EXCEPT ![llm.id] = 0]
            /\ llm' = [llm EXCEPT !.pc = "returned", !.result = None,
                                  !.tried = Append(@, Tried(model, llm.denied, "failed", Len(call.results)))]
    /\ UNCHANGED <<_breakers, calls, now>>
    /\ UNCHANGED <<_attempt_history, _closure_memory, runs, tops, completed, scored, obs_closures, matched>>
    /\ UNCHANGED <<retrieved, lookups, stream>>

ProviderReturned ==
    LET call == calls[LlmCaller]
        model == llm.chain[llm.i] IN
    /\ llm.pc = "calling"
    /\ call.pc = "done"
    /\ IF call.outcome = "value"
       THEN /\ breakers' = [breakers EXCEPT ![llm.id] = record_success(@)]
            /\ sinceSuccess' = [sinceSuccess EXCEPT ![llm.id] = 0]
            /\ probes' = [probes EXCEPT ![llm.id] = 0]
            /\ llm' = [llm EXCEPT !.pc = "returned", !.result = response_text(model),
                                  !.tried = Append(@, Tried(model, llm.denied, "value", Len(call.results)))]
            /\ UNCHANGED <<_breakers, calls>>
       ELSE Proceed(next_provider([breakers EXCEPT ![llm.id] = record_failure(@, now)], _breakers,
                                  llm.chain, llm.i + 1,
                                  Append(llm.tried, Tried(model, llm.denied, "failed", Len(call.results))), now),
                    llm.chain, llm.count, [sinceSuccess EXCEPT ![llm.id] = @ + 1])
    /\ UNCHANGED now
    /\ UNCHANGED <<_attempt_history, _closure_memory, runs, tops, completed, scored, obs_closures, matched>>
    /\ UNCHANGED <<retrieved, lookups, stream>>

\* the thread sleeps between two attempts, no longer than its delay
Sleep ==
    /\ calls[LlmCaller].pc = "sleeping"
    /\ now < calls[LlmCaller].wake
    /\ TickTo(MaxLlmTime)

\* between two llm_complete calls more than a recovery timeout passes
Pause ==
    /\ llm.pc = "returned"
    /\ now + LlmRecoveryTimeout + 1 <= MaxLlmTime
    /\ now' = now + LlmRecoveryTimeout + 1
    /\ UNCHANGED <<breakers, _breakers, calls, sinceSuccess, probes>>
    /\ UNCHANGED plannerVars

NextLlm ==
    \/ \E chain \in Chains : LlmComplete(chain)
    \/ Attempt(LlmCaller)
    \/ \E ok \in BOOLEAN : Return(LlmCaller, ok)
    \/ Wake(LlmCaller)
    \/ ProviderReturned
    \/ Sleep
    \/ Pause

SpecLlm == InitBreaker /\ [][NextLlm]_vars

(***************************************************************************)
(* api/routes_stream.py: one /debug/stream request.  run_analysis is the   *)
(* worker thread, msg_queue the unbounded queue.Queue between it and       *)
(* event_generator, the consumer; `produced` is every event ever put, in   *)
(* the order of the puts, `emitted` the frames the consumer has yielded.   *)
(* A put on the unbounded queue never blocks.  run_planner calls           *)
(* progress_cb some number of times and returns or raises; building the    *)
(* response from its output may raise too.  The client may stop reading at *)
(* any time, which closes the generator.                                   *)
(***************************************************************************)
MaxProgress == 2
MaxKeepalives == 1

PIPELINE_STAGES == <<"scope", "gather", "correlate", "similar", "root_cause", "remediation">>

StageEvent(i, status) == [type |-> "stage", data |-> [stage |-> PIPELINE_STAGES[i + 1], index |-> i, status |-> status]]

ProgressEvent(n) == [type |-> "progress", data |-> [message |-> n]]

ResultEvent == [type |-> "result", data |-> [status |-> "complete"]]

ErrorEvent == [type |-> "error", data |-> [message |-> "str(e)"]]

DoneEvent == [type |-> "done", data |-> [status |-> ""]]

\* lines 44, 64, 67: the puts before run_planner
Prologue == <<StageEvent(0, "running"), StageEvent(0, "complete"), StageEvent(1, "running")>>

\* lines 84-85: the stages after scope are marked complete
Epilogue == [i \in 1..(Len(PIPELINE_STAGES) - 1) |-> StageEvent(i, "complete")]

_sse_event(event, data) == [event |-> event, data |-> data]

StartFrame == _sse_event("start", [stages |-> PIPELINE_STAGES])

KeepaliveFrame == [comment |-> "keepalive"]

\* msg_queue.put(event) by the worker, which goes on at `worker`
put(s, event, worker, i) ==
    [s EXCEPT !.msg_queue = Append(@, event), !.produced = Append(@, event), !.worker = worker, !.i = i]

StreamStep(s) ==
    /\ stream' = s
    /\ UNCHANGED <<_attempt_history, _closure_memory, runs, tops, completed, scored, obs_closures, matched>>
    /\ UNCHANGED <<retrieved, lookups, llm>>
    /\ UNCHANGED breakerVars

\* lines 146-152: the first step of the generator starts the thread and
\* yields the start frame
StartStream ==
    /\ stream.consumer = "idle"
    /\ StreamStep([stream EXCEPT !.consumer = "reading", !.emitted = <<StartFrame>>, !.worker = "prologue", !.i = 1])

\* lines 44-67
PutPrologue ==
    /\ stream.worker = "prologue"
    /\ StreamStep(put(stream, Prologue[stream.i],
                      IF stream.i = Len(Prologue) THEN "run_planner" ELSE "prologue",
                      IF stream.i = Len(Prologue) THEN 0 ELSE stream.i + 1))

\* lines 69-70: progress_cb, called from inside run_planner
PutProgress ==
    /\ stream.worker = "run_planner"
    /\ stream.progress < MaxProgress
    /\ StreamStep([put(stream, ProgressEvent(stream.progress + 1), "run_planner", 0) EXCEPT !.progress = @ + 1])

\* lines 72-81: run_planner returns
PlannerReturns ==
    /\ stream.worker = "run_planner"
    /\ StreamStep([stream EXCEPT !.worker = "epilogue", !.i = 1])

\* lines 84-85
PutEpilogue ==
    /\ stream.worker = "epilogue"
    /\ StreamStep(put(stream, Epilogue[stream.i],
                      IF stream.i = Len(Epilogue) THEN "build" ELSE "epilogue",
                      IF stream.i = Len(Epilogue) THEN 0 ELSE stream.i + 1))

\* lines 87-141
PutResult ==
    /\ stream.worker = "build"
    /\ StreamStep(put(stream, ResultEvent, "finally", 0))

\* run_planner, or the building of the response, raises an Exception
Raises ==
    /\ stream.worker \in {"run_planner", "build"}
    /\ StreamStep([stream EXCEPT !.worker = "except", !.i = 0])

\* lines 142-143
PutError ==
    /\ stream.worker = "except"
    /\ StreamStep(put(stream, ErrorEvent, "finally", 0))

\* lines 144-145
PutDone ==
    /\ stream.worker = "finally"
    /\ StreamStep(put(stream, DoneEvent, "finished", 0))

Worker == PutPrologue \/ PutProgress \/ PlannerReturns \/ PutEpilogue \/ PutResult \/ Raises \/ PutError \/ PutDone

Relay_mut_until_done ==
    /\ stream.consumer = "reading"
    /\ stream.msg_queue # <<>>
    /\ LET event == Head(stream.msg_queue) IN
       StreamStep([stream EXCEPT !.msg_queue = Tail(@),
                                 !.emitted = Append(@, _sse_event(event.type, event.data)),
                                 !.consumer = IF event.type = "done" THEN "finished" ELSE "reading"])

\* lines 154-159: msg_queue.get returns the oldest event, which is yielded
Relay ==
    /\ stream.consumer = "reading"
    /\ stream.msg_queue # <<>>
    /\ LET event == Head(stream.msg_queue) IN
       StreamStep([stream EXCEPT !.msg_queue = Tail(@),
                                 !.emitted = Append(@, _sse_event(event.type, event.data)),
                                 !.consumer = IF event.type \in {"done", "error"} THEN "finished" ELSE "reading"])

\* lines 160-162: msg_queue.get times out on the empty queue
Keepalive ==
    /\ stream.consumer = "reading"
    /\ stream.msg_queue = <<>>
    /\ stream.keepalives < MaxKeepalives
    /\ StreamStep([stream EXCEPT !.emitted = Append(@, KeepaliveFrame), !.keepalives = @ + 1])

\* the client stops reading: the generator is closed at its yield
Disconnect ==
    /\ stream.consumer = "reading"
    /\ StreamStep([stream EXCEPT !.consumer = "closed"])

NextStream ==
    \/ StartStream
    \/ PutPrologue
    \/ PutProgress
    \/ PlannerReturns
    \/ PutEpilogue
    \/ PutResult
    \/ Raises
    \/ PutError
    \/ PutDone
    \/ Relay
    \/ Keepalive
    \/ Disconnect

SpecStream == InitBreaker /\ [][NextStream]_vars

\* the worker thread is scheduled and run_planner ends; a consumer that is
\* reading takes the events that are in the queue
SpecStreamLive == SpecStream /\ WF_vars(Worker) /\ WF_vars(Relay)

(***************************************************************************)
(* Claims about the resilience layer.                                      *)
(***************************************************************************)

\* C1: the failure counter of a breaker equals the number of record_failure
\* calls since the last record_success (or since creation), and the breaker
\* is closed exactly when that counter is below failure_threshold; so it is
\* closed after N-1 failures, not closed after the N-th, and closed with
\* counter 0 after record_success from any state.
C1_CounterAndClosed ==
    \A b \in BreakerIds :
        /\ breakers[b].failures = sinceSuccess[b]
        /\ (breakers[b].state = "closed")
              <=> (breakers[b].failures < breakers[b].failure_threshold)

\* a breaker of threshold 2 that left closed on its second failure in a row
C1_Witness ==
    \E b \in BreakerIds :
        /\ breakers[b].failure_threshold = 2
        /\ sinceSuccess[b] = 2
        /\ breakers[b].state = "open"

\* C2: an attempt of retry_with_backoff whose gate runs while the breaker is
\* open and its recovery_timeout has not elapsed does not invoke the wrapped
\* operation: the call ends there, with the fallback's result when a fallback
\* was supplied and with CircuitOpen otherwise.
C2_OpenBreakerDenies ==
    [][\A c \in Callers :
          (/\ calls[c].pc = "attempt"
           /\ calls'[c].pc # "attempt"
           /\ calls[c].brk # 0
           /\ OpenNotElapsed(breakers[calls[c].brk], now))
          => (/\ calls'[c].pc = "done"
              /\ calls'[c].outcome =
                    IF calls[c].has_fallback THEN "fallback" ELSE "CircuitOpen")]_vars

\* a call during which the breaker opened, denied on a remaining attempt
C2_Witness ==
    \E c \in Callers :
        /\ calls[c].pc = "done"
        /\ calls[c].outcome = "CircuitOpen"
        /\ calls[c].attempt >= 1
        /\ OpenNotElapsed(breakers[calls[c].brk], now)

\* C3: once recovery_timeout has elapsed on an open breaker, at most one
\* request is allowed before the outcome of the probe is recorded.
C3_OneProbe ==
    \A b \in BreakerIds : probes[b] <= 1

(***************************************************************************)
(* Claims about run_planner.                                               *)
(***************************************************************************)
\* C4: when runs of one scope fingerprint go in parallel, no two of them
\* return the same attempt_number, and once all have finished the records
\* stored for the fingerprint carry the attempt numbers 1..k, none repeated.
C4_SerializedAttempts ==
    /\ \A i, j \in DOMAIN completed :
          (/\ i # j
           /\ completed[i].returned = "result" /\ completed[j].returned = "result"
           /\ completed[i].fp = completed[j].fp)
          => completed[i].attempt_number # completed[j].attempt_number
    /\ InFlight = 0 =>
          \A fp \in Fingerprints :
             \A n \in 1..Len(_attempt_history[fp]) : _attempt_history[fp][n].attempt = n

\* C5: the run_delta of the n-th run of a fingerprint, n >= 2, is the
\* difference against the (n-1)-th attempt: confidence_delta is this run's
\* confidence minus the previous one's, signals_added this run's evidence
\* total minus the previous one's, missing_resolved the signals missing
\* before and not now; the first run's run_delta is empty.
C5_RunDelta ==
    \A i \in DOMAIN completed :
       completed[i].returned = "result" =>
          LET h == _attempt_history[completed[i].fp]
              n == completed[i].record_index
              d == completed[i].run_delta IN
          IF n = 1 THEN d.empty
          ELSE /\ ~d.empty
               /\ d.confidence_delta = FloatSub(h[n].confidence, h[n - 1].confidence)
               /\ d.signals_added = sum_values(h[n].signals) - sum_values(h[n - 1].signals)
               /\ d.missing_resolved = Range(h[n - 1].missing) \ Range(h[n].missing)

\* C6: in the run_delta of a second or later run of a fingerprint,
\* root_cause_changed is true exactly when this run's top root-cause
\* candidate differs from the top candidate of the preceding attempt.
C6_RootCauseChanged ==
    \A i \in DOMAIN completed :
       (completed[i].returned = "result" /\ completed[i].record_index >= 2) =>
          LET t == tops[completed[i].fp]
              n == completed[i].record_index IN
          completed[i].run_delta.root_cause_changed <=> (t[n] # t[n - 1])

\* C7: in a sequence of completed, non-degraded runs made one after another,
\* the k-th run of a normalized scope returns attempt_number k.
C7_AttemptNumbers ==
    \A i \in DOMAIN completed :
       completed[i].returned = "result" =>
          completed[i].attempt_number =
             Cardinality({j \in 1..i : /\ completed[j].returned = "result"
                                       /\ completed[j].scope = completed[i].scope})

\* C8: in every result tool_propose_fix is called only if the best of the
\* returned root_cause_states is probable or confirmed; when the best is
\* correlated the remediations are exactly the one low-risk "gather more
\* evidence" action, when it is observed exactly the one low-risk "broaden
\* scope" action.
C8_RemediationGate ==
    \A r \in RunIds :
       (runs[r].pc = "done" /\ runs[r].returned \in {"result", "degraded"}) =>
          LET states == runs[r].root_cause_states
              some(st) == \E k \in 1..Len(states) : states[k].state = st
              strong == some("probable") \/ some("confirmed") IN
          /\ "tool_propose_fix" \in runs[r].called => strong
          /\ (some("correlated") /\ ~strong) =>
                /\ runs[r].remediations = <<GatherToConfirm>>
                /\ runs[r].remediations[1].risk_level = "low"
          /\ (some("observed") /\ ~some("correlated") /\ ~strong) =>
                /\ runs[r].remediations = <<BroadenScope>>
                /\ runs[r].remediations[1].risk_level = "low"

C8_Witness ==
    \E r \in RunIds :
       /\ runs[r].returned = "result"
       /\ "tool_propose_fix" \in runs[r].called
       /\ runs[r].root_cause_states[1].state = "confirmed"

\* C9: in every result, the degraded one included, and at every stage
\* boundary of a run, correlate_complete implies gather_complete and
\* root_cause_complete implies correlate_complete.
C9_CompletionFlags ==
    \A r \in RunIds :
       /\ runs[r].artifacts.correlate_complete => runs[r].artifacts.gather_complete
       /\ runs[r].artifacts.root_cause_complete => runs[r].artifacts.correlate_complete

C9_Witness ==
    \E r \in RunIds :
       /\ runs[r].returned = "result"
       /\ runs[r].artifacts.gather_complete
       /\ ~runs[r].artifacts.correlate_complete
       /\ ~runs[r].artifacts.root_cause_complete

\* C10: when build_client fails the call returns, without raising, a
\* degraded result with confidence 0, tier low, no findings, the diagnostic
\* message as its reason and the four signals missing; no tool and no LLM
\* has been called and the attempt history and the closure memory are as
\* they were.
C10_DegradedResult ==
    [][\A r \in RunIds :
          (runs[r].pc = "check" /\ runs'[r].pc \notin {"check", "gather"}) =>
             /\ runs'[r].pc = "done"
             /\ runs'[r].returned = "degraded"
             /\ runs'[r].confidence.confidence = FloatZero
             /\ runs'[r].confidence.tier = "low"
             /\ runs'[r].findings = <<>>
             /\ \E msg \in {strip(e, Whitespace) : e \in BuildErrors} \cup {NotConfiguredMessage} :
                   msg # <<>> /\ runs'[r].confidence.reasons = <<msg>>
             /\ Len(runs'[r].missing_signals) = 4
             /\ Range(runs'[r].missing_signals) = {"logs", "metrics", "traces", "incidents"}
             /\ runs'[r].called = {}
             /\ UNCHANGED <<_attempt_history, _closure_memory>>]_vars

C10_Witness ==
    \E r \in RunIds :
       /\ runs[r].returned = "degraded"
       /\ runs[r].confidence.reasons = <<NotConfiguredMessage>>
       /\ _closure_memory # <<>>

\* C11: if any of the four evidence queries or the similar-incident query
\* fails, the run still goes through all later stages and returns a
\* complete result: a failed source has empty evidence, a non-empty error
\* and count 0, and the evidence of the others is in the findings unchanged.
C11_FailedSourcesTolerated ==
    \A r \in RunIds :
       LET run == runs[r]
           gathered == <<run.log_res, run.trace_res, run.metrics_res, run.changes_res>>
           failed(res) == res.error # <<>> IN
       /\ \A k \in 1..4 : failed(gathered[k]) => gathered[k].evidence = <<>>
       /\ failed(run.log_res) => run.artifacts.signals_gathered["logs"] = 0
       /\ failed(run.trace_res) => run.artifacts.signals_gathered["traces"] = 0
       /\ failed(run.metrics_res) => run.artifacts.signals_gathered["metrics"] = 0
       /\ failed(run.changes_res) => run.artifacts.signals_gathered["changes"] = 0
       /\ failed(run.inc_res) => run.similar_incidents = <<>>
       /\ run.pc \notin {"idle", "check", "gather"} =>
             run.findings = run.log_res.evidence \o run.trace_res.evidence
                               \o run.metrics_res.evidence \o run.changes_res.evidence
       /\ (run.pc = "done" /\ \E k \in 1..4 : failed(gathered[k])) =>
             run.returned = "result"

\* C12: retry_with_backoff with max_retries = n >= 1 and no breaker calls
\* the operation at most n times, stops at the first call that succeeds and
\* returns its value; if all n calls raise it returns the fallback's result
\* when there is a fallback and otherwise raises the last call's exception.
C12_RetryOutcome ==
    \A c \in Callers :
       LET call == calls[c]
           n == call.max_retries
           k == Len(call.results) IN
       (call.pc # "idle" /\ call.brk = 0) =>
          /\ k <= n
          /\ \A i \in 1..k : call.results[i] => (i = k /\ call.pc = "done")
          /\ (call.pc = "done" /\ call.results[k]) => call.outcome = "value"
          /\ (call.pc = "done" /\ ~call.results[k]) =>
                /\ k = n
                /\ call.outcome = IF call.has_fallback THEN "fallback" ELSE "raised"
                /\ call.last_exc = n
          /\ call.pc = "done" => k >= 1

C12_Witness ==
    \E c \in Callers :
       /\ calls[c].brk = 0 /\ calls[c].pc = "done"
       /\ calls[c].max_retries = MaxAttempts
       /\ calls[c].results = <<FALSE, FALSE, TRUE>>
       /\ calls[c].outcome = "value"

\* C13: the wait after failed attempt i (from 0) is min(base_delay * 2^i,
\* max_delay); the waits never decrease and never exceed max_delay, and no
\* wait follows the last attempt.
C13_BackoffWaits ==
    \A c \in Callers :
       LET call == calls[c]
           w == call.waits IN
       /\ \A i \in 1..Len(w) :
             /\ w[i] = IF call.base_delay * 2 ^ (i - 1) <= call.max_delay
                       THEN call.base_delay * 2 ^ (i - 1) ELSE call.max_delay
             /\ w[i] <= call.max_delay
             /\ i > 1 => w[i - 1] <= w[i]
       /\ Len(w) <= call.max_retries - 1
       /\ call.pc = "done" => Len(w) = call.attempt

C13_Witness ==
    \E c \in Callers :
       /\ calls[c].pc = "done"
       /\ calls[c].waits = <<1, 2, 4>>
       /\ calls[c].outcome = "raised"

(***************************************************************************)
(* C14                                                                     *)
(***************************************************************************)
\* the score as arithmetic on real numbers gives it, in hundredths
FormulaConfidence(call) ==
    LET signals == (IF call.has_apm_errors_spike THEN SignalWeight ELSE 0)
                   + (IF call.has_logs_error_burst THEN SignalWeight ELSE 0)
                   + (IF call.has_latency_anomaly THEN SignalWeight ELSE 0)
                   + (IF call.has_alert_fired THEN AlertWeight ELSE 0)
        closure == IF call.closure_match_score >= ClosureStrong THEN ClosureStrongBonus
                   ELSE IF call.closure_match_score >= ClosureModerate THEN ClosureModerateBonus
                   ELSE 0
        evidence == IF call.evidence_count >= EvidenceStrong THEN EvidenceStrongBonus
                    ELSE IF call.evidence_count >= EvidenceGood THEN EvidenceGoodBonus
                    ELSE IF call.evidence_count >= EvidenceMinimal THEN EvidenceMinimalBonus
                    ELSE 0
        missing == Cardinality({n \in DOMAIN call.sources_available : ~call.sources_available[n]})
        score == signals + closure + evidence - Min(MissingPenalty * missing, MissingPenaltyCap) IN
    Max(0, Min(ConfidenceCap, score))

FormulaTier(c) == IF c >= TierHigh THEN "high" ELSE IF c >= TierMedium THEN "medium" ELSE "low"

\* C14: for every combination of inputs compute_confidence_elastic returns
\* the confidence clamp(0.20*apm + 0.20*logs + 0.20*latency + 0.10*alert
\* + closure bonus + evidence bonus - min(0.05 * missing, 0.20), 0, 0.95)
\* (the float that Python writes for that value), with the tier high when
\* that is at least 0.55, medium when it is in [0.25, 0.55) and low
\* otherwise; all four signals, 10 evidence items and closure match 0.8 give
\* 0.95 and high.
C14_FormulaAndTier ==
    scored.called =>
        /\ scored.result.confidence = Hundredths(FormulaConfidence(scored))
        /\ scored.result.tier = FormulaTier(FormulaConfidence(scored))
        /\ scored.result.tier = _classify_tier(scored.result.confidence)
        /\ ( /\ scored.has_apm_errors_spike /\ scored.has_logs_error_burst
             /\ scored.has_latency_anomaly /\ scored.has_alert_fired
             /\ scored.evidence_count = 10 /\ scored.closure_match_score = 80
             /\ \A n \in DOMAIN scored.sources_available : scored.sources_available[n] )
           => scored.result.confidence = Hundredths(ConfidenceCap) /\ scored.result.tier = "high"

(***************************************************************************)
(* C15                                                                     *)
(***************************************************************************)
\* the inputs of the call with one flag turned from false to true, or with
\* a higher evidence tier
RaisedInputs(call) ==
    LET inputs == [apm |-> call.has_apm_errors_spike, logs |-> call.has_logs_error_burst,
                   latency |-> call.has_latency_anomaly, alert |-> call.has_alert_fired,
                   evidence |-> call.evidence_count] IN
    {[inputs EXCEPT ![flag] = TRUE] : flag \in {f \in {"apm", "logs", "latency", "alert"} : ~inputs[f]}}
    \cup {[inputs EXCEPT !.evidence = more] : more \in {n \in ScoreEvidenceCounts : n > call.evidence_count}}

\* the confidence of the call with those inputs
Rescored(call, inputs) ==
    compute_confidence_elastic(inputs.apm, inputs.logs, inputs.latency, inputs.alert, call.sources_available, inputs.evidence, call.time_range_label, Hundredths(call.closure_match_score)).confidence

\* C15: the confidence of compute_confidence_elastic is in [0, 0.95], and
\* with the other inputs fixed, turning one of the four signal flags from
\* false to true, or raising evidence_count to a higher tier (below 2, 2-4,
\* 5-9, 10 or more), never lowers it.
C15_RangeAndMonotone ==
    scored.called =>
        /\ FloatGeq(scored.result.confidence, FloatZero)
        /\ FloatGeq(Hundredths(ConfidenceCap), scored.result.confidence)
        /\ \A raised \in RaisedInputs(scored) :
              \A confidence \in {Rescored(scored, raised)} :
                  FloatGeq(confidence, scored.result.confidence)

\* a call whose confidence is strictly raised by the latency flag and by
\* each higher evidence tier
C15_Witness ==
    /\ scored.called
    /\ ~scored.has_latency_anomaly
    /\ scored.evidence_count = 1
    /\ Cardinality(RaisedInputs(scored)) >= 4
    /\ \A raised \in RaisedInputs(scored) :
          \A confidence \in {Rescored(scored, raised)} :
              FloatLess(scored.result.confidence, confidence)

(***************************************************************************)
(* C16                                                                     *)
(***************************************************************************)
\* the suggestion _compute_next_steps makes for each missing source
FetchSuggestions ==
    [logs |-> "Fetch missing logs", traces |-> "Include traces",
     metrics |-> "Add metrics data", incidents |-> "Search historical incidents"]

\* the run got a reachable store and no evidence from any of the five queries
NothingFound(run) ==
    /\ run.returned = "result"
    /\ run.artifacts.gather_complete
    /\ \A res \in {run.log_res, run.trace_res, run.metrics_res, run.changes_res, run.inc_res} :
          res.evidence = <<>> /\ res.error = <<>>

ExactScore(closure, question, service, findings) ==
    LET question_kw == _extract_keywords(question)
        closure_kw == closure.question_keywords
        keywords == question_kw # {} /\ closure_kw # {}
        d == IF keywords THEN Cardinality(question_kw \cup closure_kw) ELSE 1 IN
    [n |-> (IF keywords THEN KeywordWeight * Cardinality(question_kw \cap closure_kw) ELSE 0)
           + d * ((IF service_matches(closure, service) THEN ServiceWeight ELSE 0)
                  + (IF root_cause_in_findings(closure, findings) THEN RootCauseWeight ELSE 0)
                  + (IF signals_overlap(closure, findings) THEN SignalsWeight ELSE 0)),
     d |-> d]

\* the rounding a score may carry: 2^-39
Tiny == Ratio(1, Base)
ScoreTolerance == FloatMul(Tiny, FloatMul(Tiny, Tiny))

\* the float score is n / (100 * d) up to the rounding of its additions
IsExactly(score, n, d) ==
    \A exact \in {Ratio(n, ScoreOne * d)} :
        \A difference \in {FloatSub(score, exact).abs} : FloatLess(difference, ScoreTolerance)

\* C17: the score _match_closures returns is the sum of the four components
\* of the closure it returns (keyword overlap times 0.4, service match 0.2,
\* root-cause word in the finding messages 0.3, signal overlap 0.1), each
\* component within its weight, and lies in [0, 1]; without a matching
\* closure the score is 0.0, and so it is for an empty closure memory
C17_MatchScore ==
    matched.called =>
        /\ FloatGeq(Hundredths(ScoreOne), matched.result.score)
        /\ _closure_memory = <<>> => matched.result = NoMatch
        /\ matched.result.closure = 0 => matched.result.score = FloatZero
        /\ matched.result.closure # 0 =>
              \A exact \in {ExactScore(_closure_memory[matched.result.closure], matched.question,
                                        matched.service, matched.findings)} :
                  /\ exact.n <= ScoreOne * exact.d
                  /\ IsExactly(matched.result.score, exact.n, exact.d)

\* a closure matched in all four components, on half of the keywords
C17_Witness ==
    /\ matched.called
    /\ matched.result.closure # 0
    /\ LET closure == _closure_memory[matched.result.closure] IN
       /\ ExactScore(closure, matched.question, matched.service, matched.findings)
             = [n |-> KeywordWeight + 2 * (ServiceWeight + RootCauseWeight + SignalsWeight), d |-> 2]
       /\ service_matches(closure, matched.service)
       /\ root_cause_in_findings(closure, matched.findings)
       /\ signals_overlap(closure, matched.findings)

(***************************************************************************)
(* C18                                                                     *)
(***************************************************************************)
ExactLess(a, b) == a.n * b.d < b.n * a.d

\* the stored closure of the highest score above zero, the first of them
\* when several have it; 0 when there is none
BestStored(memory, question, service, findings) ==
    LET exact == [i \in 1..Len(memory) |-> ExactScore(memory[i], question, service, findings)]
        best == {i \in 1..Len(memory) :
                    /\ exact[i].n > 0
                    /\ \A j \in 1..Len(memory) : ~ExactLess(exact[i], exact[j])
                    /\ \A j \in 1..(i - 1) : ExactLess(exact[j], exact[i])} IN
    IF best = {} THEN 0 ELSE CHOOSE i \in best : TRUE

\* the confidence of a run whose closure match score is closure_match_score
RunConfidence(run, closure_match_score) ==
    compute_confidence_elastic(Len(run.trace_res.evidence) > 0, Len(run.log_res.evidence) > 0,
                               Len(run.metrics_res.evidence) > 0, run.similar_incidents # <<>>,
                               [n \in {"logs", "metrics", "traces", "incidents"} |->
                                   CASE n = "logs" -> Len(run.log_res.evidence) > 0
                                     [] n = "metrics" -> Len(run.metrics_res.evidence) > 0
                                     [] n = "traces" -> Len(run.trace_res.evidence) > 0
                                     [] OTHER -> run.similar_incidents # <<>>],
                               Len(run.findings), run.time_range_label, closure_match_score)

\* what the closure matching of a run does to it: run before, after after it
ClosureInjected(run, after, memory) ==
    LET best == BestStored(memory, run.question, run.service, run.findings)
        exact == IF best = 0 THEN [n |-> 0, d |-> 1]
                 ELSE ExactScore(memory[best], run.question, run.service, run.findings)
        past_rc == IF best = 0 THEN <<>> ELSE memory[best].root_cause
        inject == /\ best # 0
                  /\ exact.n >= InjectionScore * exact.d
                  /\ past_rc # <<>>
                  /\ ~\E i \in 1..Len(run.root_cause_candidates) :
                         IsSubstring(past_rc, run.root_cause_candidates[i]) IN
    /\ after.root_cause_candidates =
          IF inject THEN Append(run.root_cause_candidates, PastResolution \o past_rc)
          ELSE run.root_cause_candidates
    /\ IsExactly(after.closure_match_score, exact.n, exact.d)
    /\ after.confidence = RunConfidence(run, after.closure_match_score)

\* C18: the closure matching of a run appends the root cause of the
\* best-scoring stored closure (the first one on ties), behind the
\* past-resolution marker, as one more candidate exactly when its score is
\* at least 0.4 and its root cause is non-empty and in no candidate yet;
\* otherwise the candidates stay as they are; and the score of that closure
\* is the closure_match_score the confidence is computed with
C18_BestClosureInjected ==
    [][\A r \in RunIds :
          (runs[r].pc = "assess" /\ runs'[r].pc = "attempt_read")
              => ClosureInjected(runs[r], runs'[r], _closure_memory)]_vars

(***************************************************************************)
(* C19                                                                     *)
(***************************************************************************)
Timestamps(records) == {records[i].timestamp : i \in 1..Len(records)}

\* C19: when closures are recorded and the store is loaded again from the
\* index, the store holds at most 100 records; a record evicted by
\* record_closure is the oldest one held; and the records held are the most
\* recently created ones: no document of the index is newer than a record
\* held without being held itself
C19_NewestKept ==
    [][/\ Len(_closure_memory') <= MemoryLimit
       /\ \A evicted \in Timestamps(_closure_memory) \ Timestamps(_closure_memory') :
             now' # now => \A held \in Timestamps(_closure_memory) : evicted <= held
       /\ \A held \in Timestamps(_closure_memory') :
             \A stored \in Timestamps(obs_closures') \ Timestamps(_closure_memory') :
                 stored < held]_vars

(***************************************************************************)
(* C20                                                                     *)
(***************************************************************************)
\* the record of the call is the last of the store, get_closure_memory
\* shows it, and a question with its keywords for its service matches a
\* closure of its score (checked on stores of up to MaxMemory records)
Recorded(memory, doc, input) ==
    /\ memory # <<>>
    /\ memory[Len(memory)] = doc
    /\ \A shown \in {get_closure_memory(memory)[Len(memory)]} :
          /\ Range(shown.question_keywords) = doc.question_keywords
          /\ [shown EXCEPT !.question_keywords = doc.question_keywords] = doc
    /\ Len(memory) <= MaxMemory =>
          \A result \in {_match_closures(memory, input.question, input.service, <<>>)} :
              /\ result.closure # 0
              /\ FloatLess(FloatZero, result.score)
              /\ ExactScore(memory[result.closure], input.question, input.service, <<>>)
                    = ExactScore(doc, input.question, input.service, <<>>)

\* C20: every call of record_closure returns with its record added at the
\* end of the in-memory store, whether or not the index took the document;
\* the record is in what get_closure_memory returns and _match_closures
\* matches it
C20_AlwaysRecorded ==
    [][now' # now =>
          /\ Len(_closure_memory') = Min(Len(_closure_memory) + 1, MemoryLimit)
          /\ \E input \in ClosureInputs :
                Recorded(_closure_memory',
                         closure_doc(input.root_cause, input.signals_used, input.service,
                                     input.question, now), input)]_vars

\* the store holds a record that the index did not take
C20_Witness ==
    \E held \in Timestamps(_closure_memory) : held \notin Timestamps(obs_closures)

(***************************************************************************)
(* C21                                                                     *)
(***************************************************************************)
\* the responses a hybrid_query call fused: the first 2 * top_k hits of each
\* ranking, and no vector hits when no vector search was made
LexicalList == search(retrieved.lexical_hits, 2 * retrieved.top_k)
VectorList ==
    IF retrieved.embedded = "vector" THEN search(retrieved.vector_hits, 2 * retrieved.top_k) ELSE <<>>

\* the 0-indexed rank of a document in a list, -1 when it is not there
RankIn(hits, doc_id) ==
    IF \E i \in 1..Len(hits) : hits[i] = doc_id
    THEN (CHOOSE i \in 1..Len(hits) : hits[i] = doc_id) - 1
    ELSE -1

\* x is the float nearest to 1/n: | n * x - 1 | is at most n/2 units of the
\* last place of x
IsReciprocal(x, n) ==
    /\ x.m # <<>>
    /\ x.e < 0
    /\ LET product == Trim(MulSmall(x.m, n, 1, 0))
           one == ShiftLeft(<<1>>, -x.e)
           width == Max(Len(product), Len(one))
           difference == IF LessLimbs(product, one, width) THEN Trim(SubLimbs(one, product, 1, 0))
                         ELSE Trim(SubLimbs(product, one, 1, 0)) IN
       \/ difference = <<>>
       \/ Len(difference) = 1 /\ 2 * difference[1] <= n

IsRankScore(x, rank) == IF rank < 0 THEN x = FloatZero ELSE IsReciprocal(x, 60 + rank)

\* 1/(60 + r1) + 1/(60 + r2) as a fraction, a term dropped for a rank of -1
ExactFused(r1, r2) ==
    IF r1 < 0 /\ r2 < 0 THEN [n |-> 0, d |-> 1]
    ELSE IF r2 < 0 THEN [n |-> 1, d |-> 60 + r1]
    ELSE IF r1 < 0 THEN [n |-> 1, d |-> 60 + r2]
    ELSE [n |-> 120 + r1 + r2, d |-> (60 + r1) * (60 + r2)]

ExactFusedOf(doc_id) == ExactFused(RankIn(LexicalList, doc_id), RankIn(VectorList, doc_id))

DistinctDocs == Range(LexicalList) \cup Range(VectorList)

\* C21: each document hybrid_query returns has score_lexical 1/(60 + r1) for
\* its 0-indexed rank r1 in the lexical list or 0 when it is not in it,
\* score_vector likewise for the vector list, and score_fused their sum; the
\* results are in the order of non-increasing score_fused, there are
\* min(top_k, number of distinct documents) of them, each a different
\* document, and no omitted document has a higher score than a returned one
C21_FusedRanking ==
    (retrieved.called /\ retrieved.function = "hybrid_query" /\ retrieved.result.kind = "value") =>
        LET results == retrieved.result.evidence IN
        /\ \A i \in 1..Len(results) :
              /\ results[i].doc_id \in DistinctDocs
              /\ IsRankScore(results[i].score_lexical, RankIn(LexicalList, results[i].doc_id))
              /\ IsRankScore(results[i].score_vector, RankIn(VectorList, results[i].doc_id))
              /\ results[i].score_fused = FloatAdd(results[i].score_lexical, results[i].score_vector)
        /\ \A i, j \in 1..Len(results) :
              i < j => /\ ~FloatLess(results[i].score_fused, results[j].score_fused)
                       /\ results[i].doc_id # results[j].doc_id
        /\ Len(results) = Min(retrieved.top_k, Cardinality(DistinctDocs))
        /\ \A omitted \in DistinctDocs \ {results[i].doc_id : i \in 1..Len(results)} :
              \A i \in 1..Len(results) :
                  ExactFusedOf(omitted).n * ExactFusedOf(results[i].doc_id).d
                      <= ExactFusedOf(results[i].doc_id).n * ExactFusedOf(omitted).d

\* three documents, one of them in both lists and moved to the front by its
\* vector rank, and the last one cut off by top_k
C21_Witness ==
    /\ retrieved.called
    /\ retrieved.function = "hybrid_query"
    /\ retrieved.result.kind = "value"
    /\ retrieved.embedded = "vector"
    /\ Cardinality(DistinctDocs) = 3
    /\ Len(retrieved.result.evidence) = 2
    /\ RankIn(LexicalList, retrieved.result.evidence[1].doc_id) = 1
    /\ RankIn(VectorList, retrieved.result.evidence[1].doc_id) = 0
    /\ RankIn(VectorList, retrieved.result.evidence[2].doc_id) = -1

(***************************************************************************)
(* C22                                                                     *)
(***************************************************************************)
\* C22: when embed_text fails, whatever it raises, and Elasticsearch
\* answers, hybrid_query returns without raising the lexical-only ranking
\* (the first top_k lexical hits in their order, every score_vector 0.0 and
\* score_fused equal to score_lexical), and the similar-incident search
\* returns an empty list and reports no error
C22_EmbeddingFailureDegrades ==
    (retrieved.called /\ retrieved.embedded # "vector" /\ retrieved.searchable) =>
        /\ retrieved.function = "hybrid_query" =>
              /\ retrieved.result.kind = "value"
              /\ [i \in 1..Len(retrieved.result.evidence) |-> retrieved.result.evidence[i].doc_id]
                     = search(retrieved.lexical_hits, retrieved.top_k)
              /\ \A i \in 1..Len(retrieved.result.evidence) :
                    /\ retrieved.result.evidence[i].score_vector = FloatZero
                    /\ retrieved.result.evidence[i].score_fused = retrieved.result.evidence[i].score_lexical
        /\ retrieved.function = "tool_find_similar_incidents" =>
              /\ retrieved.incidents = Value(<<>>)
              /\ retrieved.result = ToolResult(<<>>, <<>>)

(***************************************************************************)
(* C23                                                                     *)
(***************************************************************************)
\* C23: the registry has one breaker per name: every thread that was given
\* a breaker for a name, whatever threshold and timeout it asked for and
\* also when the name was first requested by two threads at once, holds the
\* breaker the registry holds for that name, and every breaker a failure
\* was recorded on is the registered one, so that no recorded failure is
\* out of the sight of the other users of the name
C23_OneBreakerPerName ==
    /\ \A c \in Holders : lookups[c].got = _breakers[lookups[c].name]
    /\ \A c, d \in Holders : lookups[c].name = lookups[d].name => lookups[c].got = lookups[d].got
    /\ \A b \in BreakerIds : breakers[b].failures > 0 => _breakers[breakers[b].name] = b

(***************************************************************************)
(* C24                                                                     *)
(***************************************************************************)
Unavailable(tried) == tried.outcome \in {"skipped", "failed"}

\* C24: llm_complete always returns to its caller and never raises; it goes
\* through the chain in order; a provider is skipped, without a call of
\* _call_llm, exactly when its breaker denies the request; a provider that
\* failed was called max_retries times; the result is None exactly when the
\* chain is empty or every provider of it failed or was skipped, and
\* otherwise it is the text of the first provider that succeeded, after
\* which no later provider is looked at
C24_LlmNeverRaises ==
    /\ llm.pc \in {"idle", "calling", "returned"}
    /\ llm.pc = "returned" =>
          /\ Len(llm.tried) <= Len(llm.chain)
          /\ \A k \in 1..Len(llm.tried) :
                /\ llm.tried[k].model = llm.chain[k]
                /\ llm.tried[k].outcome = "skipped" <=> llm.tried[k].denied
                /\ llm.tried[k].outcome = "skipped" => llm.tried[k].attempts = 0
                /\ llm.tried[k].outcome = "failed" => llm.tried[k].attempts = 2
                /\ llm.tried[k].outcome = "value" => llm.tried[k].attempts \in 1..2 /\ k = Len(llm.tried)
          /\ llm.result = None <=> (Len(llm.tried) = Len(llm.chain) /\ \A k \in 1..Len(llm.tried) : Unavailable(llm.tried[k]))
          /\ llm.result # None =>
                /\ llm.tried # <<>>
                /\ llm.tried[Len(llm.tried)].outcome = "value"
                /\ llm.result = "text of " \o llm.chain[Len(llm.tried)]

\* the breaker of the first provider is open, so the provider is skipped;
\* the second one succeeds on its second attempt and the third is not asked
C24_Witness ==
    /\ llm.pc = "returned"
    /\ Len(llm.chain) = 3
    /\ Len(llm.tried) = 2
    /\ llm.tried[1].outcome = "skipped"
    /\ llm.tried[2].outcome = "value"
    /\ llm.tried[2].attempts = 2
    /\ llm.result = "text of groq"
    /\ breakers[_breakers["llm_gemini"]].state = "open"

(***************************************************************************)
(* C25                                                                     *)
(***************************************************************************)
\* the step is the end of a retry_with_backoff call on breaker b that used
\* up all its attempts
Exhausts(b) ==
    \E c \in Callers :
        /\ calls[c].brk = b
        /\ calls[c].pc = "calling"
        /\ calls'[c].pc = "done"
        /\ calls'[c].outcome \in {"raised", "fallback"}
        /\ Len(calls'[c].results) = calls[c].max_retries

\* C25: a call through retry_with_backoff records a failure on its breaker
\* only when its attempts are used up: the failure counter of a breaker
\* goes up only in the step that ends an exhausted call, and then by one; a
\* call that succeeds in the end leaves the counter at 0; and so a breaker
\* opens only in the step that ends an exhausted call
C25_FailureOnceExhausted ==
    [][\A b \in 1..Len(breakers) :
          /\ breakers'[b].failures > breakers[b].failures =>
                (Exhausts(b) /\ breakers'[b].failures = breakers[b].failures + 1)
          /\ (\E c \in Callers : calls[c].brk = b /\ calls[c].pc = "calling" /\ calls'[c].outcome = "value") =>
                breakers'[b].failures = 0
          /\ (breakers[b].state = "closed" /\ breakers'[b].state = "open") => Exhausts(b)]_vars

(***************************************************************************)
(* C26                                                                     *)
(***************************************************************************)
\* the state the final values of a run give: confirmed for a confidence of
\* at least 0.7 with a similar incident and a correlation above 0.5 (15
\* thirtieths), else probable for a correlation above 0.3 (9 thirtieths)
\* and 3 findings, else correlated for a finding, else observed
FinalState(run) ==
    IF ~FloatLess(run.confidence.confidence, Ratio(7, 10)) /\ run.similar_incidents # <<>>
       /\ run.artifacts.correlation_score > 15
    THEN "confirmed"
    ELSE IF run.artifacts.correlation_score > 9 /\ Len(run.findings) >= 3 THEN "probable"
    ELSE IF Len(run.findings) >= 1 THEN "correlated"
    ELSE "observed"

\* C26: in every non-degraded result root_cause_states has one entry for
\* each element of root_cause_candidates, in the same order and with its
\* text, and the state of each entry is the one the final confidence, the
\* correlation score, the number of findings and the presence of a similar
\* incident give
C26_StatePerCandidate ==
    \A r \in RunIds :
        (runs[r].pc = "done" /\ runs[r].returned = "result") =>
            /\ Len(runs[r].root_cause_states) = Len(runs[r].root_cause_candidates)
            /\ \A i \in 1..Len(runs[r].root_cause_states) :
                  /\ i <= Len(runs[r].root_cause_candidates)
                  /\ runs[r].root_cause_states[i].text = runs[r].root_cause_candidates[i]
                  /\ runs[r].root_cause_states[i].state = FinalState(runs[r])

(***************************************************************************)
(* C27                                                                     *)
(***************************************************************************)
\* C27: the 'insufficient evidence' sentinel is a candidate of a result
\* only when it is the only one (no LLM synthesis, no root cause of a
\* similar incident, no 'recent deployment' fallback and no candidate
\* injected from the closure memory comes with it), and the 'recent
\* deployment' fallback is a candidate only when change events were found
C27_SentinelAlone ==
    \A r \in RunIds :
        (runs[r].pc = "done" /\ runs[r].returned = "result") =>
            /\ InsufficientEvidence \in Range(runs[r].root_cause_candidates) =>
                  runs[r].root_cause_candidates = <<InsufficientEvidence>>
            /\ RecentDeployment \in Range(runs[r].root_cause_candidates) =>
                  runs[r].changes_res.evidence # <<>>

\* C28: within a run tool_propose_fix is called only when the findings and
\* the similar incidents number at least 2 and every root-cause claim has at
\* least one citation; when the best state at the gate is probable or
\* confirmed and that condition fails, the run returns its result and the
\* remediations are exactly the one low-risk "gather more evidence" action.
\* The second half is also stated of the gate itself, for every sampled
\* evidence and claim list: validate_before_propose accepts exactly on that
\* condition and a rejection yields exactly that one action.
EvidenceSamples == {<<>>, <<LogItem>>, <<LogItem, TraceItem>>, <<LogItem, TraceItem, MetricItem>>}

\* the citation lists of the claims handed to the validator
CitationSamples ==
    {<<>>, <<<<>>>>, <<<<LogItem>>>>, <<<<LogItem>>, <<>>>>, <<<<LogItem>>, <<LogItem, TraceItem>>>>}

Accepted(findings, incidents, citations) ==
    /\ Len(findings) + Len(incidents) >= 2
    /\ \A i \in 1..Len(citations) : Len(citations[i]) >= 1

GatherMoreEvidence == <<[action |-> "Gather more evidence before applying fix", risk_level |-> "low"]>>

\* the citation lists of the claims of run r at the gate: findings[:2] each
GateCitations(r) == [i \in 1..Len(runs[r].root_cause_candidates) |-> SubSeq(runs[r].findings, 1, Min(2, Len(runs[r].findings)))]

\* the best state at the gate, where the states are classified without a confidence
GateStrong(r) ==
    best_state_of(classify_all(runs[r].root_cause_candidates, Len(runs[r].findings),
                               runs[r].artifacts.correlation_score, runs[r].similar_incidents # <<>>,
                               FloatZero)) \in {"probable", "confirmed"}

C28_ValidatorGuardsFix ==
    /\ \A r \in RunIds :
          /\ "tool_propose_fix" \in runs[r].called =>
                Accepted(runs[r].findings, runs[r].similar_incidents, GateCitations(r))
          /\ (/\ runs[r].pc = "done"
              /\ runs[r].returned \in {"result", "degraded"}
              /\ GateStrong(r)
              /\ ~Accepted(runs[r].findings, runs[r].similar_incidents, GateCitations(r))) =>
                runs[r].remediations = GatherMoreEvidence
    /\ \A findings \in EvidenceSamples, incidents \in IncidentLists, citations \in CitationSamples :
          /\ validate_before_propose(findings, incidents, citations) = Accepted(findings, incidents, citations)
          /\ ~Accepted(findings, incidents, citations) =>
                \A best_state \in {"probable", "confirmed"}, fix_res \in FixResponses :
                   remediations_for(best_state, validate_before_propose(findings, incidents, citations),
                                    fix_res) = GatherMoreEvidence

C28_Witness ==
    \E r \in RunIds :
       /\ runs[r].pc = "done"
       /\ runs[r].returned = "result"
       /\ "tool_propose_fix" \in runs[r].called
       /\ Len(runs[r].findings) + Len(runs[r].similar_incidents) >= 2
       /\ Len(runs[r].remediations) = 1
       /\ runs[r].remediations[1].risk_level = "medium"

\* C29: in the streaming variant the worker, once started, is never blocked
\* (one of its steps is enabled until it has finished, whatever the queue
\* holds and whether the consumer reads, has finished or has gone away); it
\* puts at most one "result" or "error", never both, and ends by putting
\* exactly one "done", after exactly one of the two, as the last event; it
\* always gets there.  The consumer yields "start" first, then the queued
\* events in the order of the puts, nothing after the first "done" or
\* "error", and a consumer that keeps reading finishes.
CountOf(events, type) == Cardinality({k \in 1..Len(events) : events[k].type = type})

\* the frames other than the start frame and the keepalive comments
Relayed == SelectSeq(stream.emitted, LAMBDA frame : "event" \in DOMAIN frame /\ frame.event # "start")

WorkerProtocol ==
    /\ CountOf(stream.produced, "result") + CountOf(stream.produced, "error") <= 1
    /\ CountOf(stream.produced, "done") <= 1
    /\ stream.worker = "finished" <=> CountOf(stream.produced, "done") = 1
    /\ stream.worker = "finished" =>
          /\ stream.produced[Len(stream.produced)].type = "done"
          /\ CountOf(stream.produced, "result") + CountOf(stream.produced, "error") = 1
    /\ stream.worker \notin {"idle", "finished"} => ENABLED Worker

ConsumerProtocol ==
    /\ stream.consumer # "idle" =>
          /\ stream.emitted[1] = [event |-> "start", data |-> [stages |-> PIPELINE_STAGES]]
          /\ \A k \in 2..Len(stream.emitted) : stream.emitted[k] # stream.emitted[1]
    /\ Len(Relayed) <= Len(stream.produced)
    /\ \A k \in 1..Len(Relayed) :
          /\ Relayed[k].event = stream.produced[k].type
          /\ Relayed[k].data = stream.produced[k].data
          /\ k < Len(Relayed) => Relayed[k].event \notin {"done", "error"}
    /\ stream.consumer = "finished" <=>
          (Relayed # <<>> /\ Relayed[Len(Relayed)].event \in {"done", "error"})

C29_StreamProtocol ==
    /\ [](WorkerProtocol /\ ConsumerProtocol)
    /\ (stream.worker # "idle") ~> (stream.worker = "finished")
    /\ (stream.consumer = "reading") ~> (stream.consumer \in {"finished", "closed"})

C29_Witness ==
    /\ stream.worker = "finished"
    /\ stream.consumer = "finished"
    /\ CountOf(stream.produced, "result") = 1
    /\ Len(Relayed) = Len(stream.produced)
    /\ Relayed[Len(Relayed)].event = "done"
    /\ \E k \in 1..Len(stream.emitted) : stream.emitted[k] = KeepaliveFrame

\* C30: the progress callback is observational only: a run at the correlate
\* stage goes on to the same state with and without a callback (the flag
\* itself apart), and a run without a callback ends returning a result, the
\* degraded one included, with its attempt in the history when it is a full
\* result.
WithCallback(run, progress_callback) == [run EXCEPT !.progress_callback = progress_callback]

C30_CallbackObservational ==
    \A r \in RunIds :
       /\ runs[r].pc = "correlate" =>
             WithCallback(correlate(WithCallback(runs[r], FALSE)), TRUE) = correlate(WithCallback(runs[r], TRUE))
       /\ (runs[r].pc = "done" /\ ~runs[r].progress_callback) =>
             /\ runs[r].returned \in {"result", "degraded"}
             /\ runs[r].returned = "result" => _attempt_history[runs[r].fp] # <<>>

====
